---- MODULE Spec2Model ----
(***************************************************************************)
(* Retrieval-augmented chat pipeline of the AIME Knowledge Hub             *)
(* (src/app/api/chat/route.ts): POST -> generateEmbedding ->               *)
(* searchSimilarChunks -> enhanceWithIntelligence -> generateResponse.     *)
(* Scores are percentages (0.8 -> 80, 0.95 -> 95).                         *)
(***************************************************************************)
EXTENDS Integers, Sequences, FiniteSets, TLC

VARIABLES store, pc, req, calls, failed, ext, allResults, relevantChunks,
          enhancement, promptContext, llmCalls, response

\* the validation snippet store (src/app/api/validation/snippets/route.ts)
VARIABLES validationSnippets, posts, snippetResponse

\* the clock Date.now(), in milliseconds
VARIABLE now

\* the process-wide cache apiCache (SimpleCache); lastSet is the history of it:
\* for every key the latest set not followed by a clear of the key
VARIABLES cache, cacheAnswer, lastSet

\* chat requests running at once: the locals of each POST
VARIABLE tasks

\* the chat widget (ChatWidget.tsx): widget is the React state of the last
\* render, which the handlers and the buttons read; queued is the state the
\* set calls made since lead to; chats and saves are the fetches in flight;
\* accepted counts the submissions that passed the test of handleSubmit
VARIABLES widget, queued, chats, saves, accepted

chatVars == <<store, pc, req, calls, failed, ext, allResults, relevantChunks,
              enhancement, promptContext, llmCalls, response>>

snippetVars == <<validationSnippets, posts, snippetResponse>>

cacheVars == <<cache, cacheAnswer, lastSet>>

taskVars == <<tasks>>

widgetVars == <<widget, queued, chats, saves, accepted>>

\* everything outside the chat pipeline
otherVars == <<snippetVars, now, cacheVars, taskVars, widgetVars>>

vars == <<chatVars, otherVars>>

----------------------------------------------------------------------------
(* Bounds of the model *)

\* longest row list the vector store answers with (match_count is 15 in the code)
MaxVec == 2

----------------------------------------------------------------------------
(* Program constants *)

Limit == 5
maxPerDocument == 2
ThemeSimilarity == 80
DirectSimilarity == 95
ThemeChunkLimit == 15
HoodieChunkLimit == 2
FallbackLimit == 5

\* a row that carries no similarity column (document, direct and fallback queries)
NoScore == -1
NoDocument == "none"
HoodieTitle == "Hoodie Economics"

----------------------------------------------------------------------------
(* The chunk store: table document_chunks, rows in table order *)

Row(c, d, t, i, txt) ==
    [chunk_id |-> c, document_id |-> d, document_title |-> t,
     chunk_index |-> i, content |-> txt, similarity |-> NoScore,
     match_type |-> "none"]

EmptyStore == <<>>

\* one long document (7 chunks, inserted out of index order), two documents
\* that share a title, one more title
StoreA ==
    << Row("c3", "d1", HoodieTitle, 2, "t3"),
       Row("c1", "d1", HoodieTitle, 0, "t1"),
       Row("c2", "d1", HoodieTitle, 1, "t2"),
       Row("c8", "d2", "Mentoring", 0, "t8"),
       Row("c4", "d1", HoodieTitle, 3, "t4"),
       Row("c5", "d1", HoodieTitle, 4, "t5"),
       Row("c6", "d1", HoodieTitle, 5, "t6"),
       Row("c7", "d1", HoodieTitle, 6, "t7"),
       Row("c9", "d2", "Mentoring", 1, "t8"),
       Row("c10", "d3", "Mentoring", 0, "t10"),
       Row("c11", "d4", "Impact", 0, "t11") >>

\* three short documents with three titles, none of them the hoodie title
StoreB ==
    << Row("c1", "d2", "Mentoring", 0, "t1"),
       Row("c2", "d2", "Mentoring", 1, "t2"),
       Row("c3", "d3", "Culture", 0, "t3"),
       Row("c4", "d3", "Culture", 1, "t3"),
       Row("c5", "d4", "Impact", 0, "t5"),
       Row("c6", "d4", "Impact", 1, "t6") >>

Stores == {EmptyStore, StoreA, StoreB}

\* the catalog (Airtable Documents and Themes): theme names of each document
DocThemes ==
    [d \in {"d1", "d2", "d3", "d4", "d5"} |->
        CASE d = "d1" -> {"Economics"}
          [] d = "d2" -> {"Mentoring"}
          [] d = "d3" -> {"Mentoring", "Culture"}
          [] d = "d4" -> {"Impact"}
          [] OTHER    -> {"Culture"}]

----------------------------------------------------------------------------
(* Sequence helpers *)

Range(s) == {s[i] : i \in 1..Len(s)}

RECURSIVE SelectSeq2(_, _)
\* rows of s whose document_id is in ids, table order kept
SelectSeq2(s, ids) ==
    IF s = <<>> THEN <<>>
    ELSE IF Head(s).document_id \in ids
         THEN <<Head(s)>> \o SelectSeq2(Tail(s), ids)
         ELSE SelectSeq2(Tail(s), ids)

Take(s, n) == SubSeq(s, 1, IF Len(s) < n THEN Len(s) ELSE n)

RECURSIVE OrderByChunkIndex(_)
\* .order('chunk_index'): ascending, rows of equal index keep table order
OrderByChunkIndex(s) ==
    IF s = <<>> THEN <<>>
    ELSE LET t == OrderByChunkIndex(SubSeq(s, 1, Len(s) - 1))
             x == s[Len(s)]
             k == Cardinality({i \in 1..Len(t) : t[i].chunk_index <= x.chunk_index})
         IN SubSeq(t, 1, k) \o <<x>> \o SubSeq(t, k + 1, Len(t))

----------------------------------------------------------------------------
(* Queries against the chunk store *)

\* the document query without its .eq('document_id', documentId) filter
DocChunksQueryUnfiltered(st, documentId) == OrderByChunkIndex(st)

\* .eq('document_id', documentId).order('chunk_index')
DocChunksQuery(st, documentId) ==
    OrderByChunkIndex(SelectSeq2(st, {documentId}))

\* .in('document_id', matchingDocumentIds).limit(15)
ThemeChunksQuery(st, ids) == Take(SelectSeq2(st, ids), ThemeChunkLimit)

RECURSIVE SelectTitle(_, _)
SelectTitle(s, title) ==
    IF s = <<>> THEN <<>>
    ELSE IF Head(s).document_title = title
         THEN <<Head(s)>> \o SelectTitle(Tail(s), title)
         ELSE SelectTitle(Tail(s), title)

\* .eq('document_title', 'Hoodie Economics').limit(2)
HoodieQuery(st) == Take(SelectTitle(st, HoodieTitle), HoodieChunkLimit)

\* a fallback query that selects nothing
FallbackQueryNothing(st) == <<>>

\* .limit(5)
FallbackQuery(st) == Take(st, FallbackLimit)

\* documents whose theme names meet the selected themes
MatchingDocuments(selectedThemes) ==
    {d \in DOMAIN DocThemes : DocThemes[d] \cap Range(selectedThemes) # {}}

\* similarities match_chunks can report: 1 - distance > match_threshold = 0
VectorScores == {60, 95, 99}

\* answers of match_chunks: distinct rows of the table, best similarity first
VectorAnswers(st) ==
    {v \in UNION {[1..n -> [row : Range(st), sim : VectorScores]] : n \in 0..MaxVec} :
        /\ \A i, j \in 1..Len(v) : i < j =>
              /\ v[i].row # v[j].row
              /\ v[i].sim >= v[j].sim}

VectorRows(v) ==
    [i \in 1..Len(v) |-> [v[i].row EXCEPT !.similarity = v[i].sim]]

----------------------------------------------------------------------------
(* searchSimilarChunks, step 4: deduplication and document diversity *)

\* (b.similarity || 0)
Score(chunk) == IF chunk.similarity = NoScore THEN 0 ELSE chunk.similarity

\* the merger without the sort
SortOmitted(s) == s

RECURSIVE SortBySimilarity(_)
\* allResults.sort((a, b) => (b.similarity || 0) - (a.similarity || 0)), stable
SortBySimilarity(s) ==
    IF s = <<>> THEN <<>>
    ELSE LET t == SortBySimilarity(SubSeq(s, 1, Len(s) - 1))
             x == s[Len(s)]
             k == Cardinality({i \in 1..Len(t) : Score(t[i]) >= Score(x)})
         IN SubSeq(t, 1, k) \o <<x>> \o SubSeq(t, k + 1, Len(t))

\* the merger with the seenChunks test lost
SeenChunkNever(uniqueResults, chunk) == FALSE

\* seenChunks.has(chunk.chunk_id)
SeenChunk(uniqueResults, chunk) ==
    \E i \in 1..Len(uniqueResults) : uniqueResults[i].chunk_id = chunk.chunk_id

\* the merger with documentCounts never incremented
DocumentCountZero(uniqueResults, docTitle) == 0

\* documentCounts.get(docTitle) || 0
DocumentCount(uniqueResults, docTitle) ==
    Cardinality({i \in 1..Len(uniqueResults) :
                    uniqueResults[i].document_title = docTitle})

\* the two tests that admit a chunk
Admissible(uniqueResults, chunk) ==
    /\ ~SeenChunk(uniqueResults, chunk)
    /\ DocumentCount(uniqueResults, chunk.document_title) < maxPerDocument

RECURSIVE AdmitLoopNoBreak(_, _, _)
\* the admission loop without its break
AdmitLoopNoBreak(rest, uniqueResults, limit) ==
    IF rest = <<>> THEN uniqueResults
    ELSE IF Admissible(uniqueResults, Head(rest))
         THEN AdmitLoopNoBreak(Tail(rest), Append(uniqueResults, Head(rest)), limit)
         ELSE AdmitLoopNoBreak(Tail(rest), uniqueResults, limit)

RECURSIVE AdmitLoop(_, _, _)
\* for (const chunk of allResults) { ... if (uniqueResults.length >= limit) break }
AdmitLoop(rest, uniqueResults, limit) ==
    IF rest = <<>> THEN uniqueResults
    ELSE IF Admissible(uniqueResults, Head(rest))
         THEN LET u == Append(uniqueResults, Head(rest))
              IN IF Len(u) >= limit THEN u
                 ELSE AdmitLoop(Tail(rest), u, limit)
         ELSE AdmitLoop(Tail(rest), uniqueResults, limit)

MergeResults(results, limit) == AdmitLoop(SortBySimilarity(results), <<>>, limit)

----------------------------------------------------------------------------
(* The request *)

\* texts (messages, answers, fact contents) are strings
NoMessage == ""

\* the messages followed
Messages == {NoMessage, "aime", "hoodie", "Hoodie Economics"}

\* the character at a 1-based position of a string
CharAt(s, i) == IF i \in 1..Len(s) THEN SubSeq(s, i, i) ELSE ""

\* the lower-case form of one character
LowerChar(c) ==
    CASE c = "A" -> "a" [] c = "B" -> "b" [] c = "C" -> "c" [] c = "D" -> "d"
      [] c = "E" -> "e" [] c = "F" -> "f" [] c = "G" -> "g" [] c = "H" -> "h"
      [] c = "I" -> "i" [] c = "J" -> "j" [] c = "K" -> "k" [] c = "L" -> "l"
      [] c = "M" -> "m" [] c = "N" -> "n" [] c = "O" -> "o" [] c = "P" -> "p"
      [] c = "Q" -> "q" [] c = "R" -> "r" [] c = "S" -> "s" [] c = "T" -> "t"
      [] c = "U" -> "u" [] c = "V" -> "v" [] c = "W" -> "w" [] c = "X" -> "x"
      [] c = "Y" -> "y" [] c = "Z" -> "z"
      [] OTHER -> c

RECURSIVE toLowerCase(_)
\* String.prototype.toLowerCase
toLowerCase(s) ==
    IF Len(s) <= 1 THEN LowerChar(s)
    ELSE toLowerCase(SubSeq(s, 1, Len(s) \div 2))
         \o toLowerCase(SubSeq(s, Len(s) \div 2 + 1, Len(s)))

\* String.prototype.includes
StrIncludes(s, part) ==
    \E i \in 1..(Len(s) - Len(part) + 1) : SubSeq(s, i, i + Len(part) - 1) = part

\* text.toLowerCase().includes(word)
Includes(text, word) == StrIncludes(toLowerCase(text), word)

DocumentIds == {NoDocument, "d1", "d2", "d9"}
ThemeSelections ==
    {<<>>, <<"Mentoring">>, <<"Culture", "Impact">>, <<"Mentoring", "Impact">>,
     <<"Unknown">>}
Models == {"openai", "anthropic"}

\* a turn of the conversation: ChatMessage
Turn(role, content) == [role |-> role, content |-> content]

\* a conversation longer than the window sent to the LLM
FiveTurns ==
    <<Turn("user", "t1"), Turn("assistant", "t2"), Turn("user", "t3"),
      Turn("assistant", "t4"), Turn("user", "t5")>>

\* history = [] by default
Histories == {<<>>, FiveTurns}

\* the body of the request; a history is followed on document-scoped requests
Requests ==
    {r \in [message : Messages, model : Models, history : Histories,
            enable_intelligence : BOOLEAN, document_id : DocumentIds,
            selectedThemes : ThemeSelections] :
        r.history # <<>> => r.document_id # NoDocument}

NoRequest ==
    [message |-> NoMessage, model |-> "openai", history |-> <<>>,
     enable_intelligence |-> FALSE, document_id |-> NoDocument,
     selectedThemes |-> <<>>]

----------------------------------------------------------------------------
(* searchSimilarChunks: what the collaborators answered *)

Outcomes == {"data", "error", "throw"}
AirtableOutcomes == {"ok", "notok", "throw", "nokeys"}

\* nothing queried yet
SkipExt ==
    [doc |-> "skip", docData |-> <<>>,
     air |-> "skip",
     theme |-> "skip", themeData |-> <<>>,
     vec |-> "skip", vecData |-> <<>>,
     hoodie |-> "skip", hoodieData |-> <<>>,
     fb |-> "skip", fbData |-> <<>>]

DataOf(o, rows) == IF o = "data" THEN rows ELSE <<>>

\* an exception that reaches the catch of searchSimilarChunks; the theme
\* block has a try of its own
Thrown(e) ==
    e.doc = "throw" \/ e.vec = "throw" \/ e.hoodie = "throw" \/ e.fb = "throw"

Tagged(rows, sim, tag) ==
    [i \in 1..Len(rows) |-> [rows[i] EXCEPT !.similarity = sim, !.match_type = tag]]

\* themedResults pushed on allResults
ThemePart(e) ==
    IF e.air = "ok" /\ e.theme = "data"
    THEN Tagged(e.themeData, ThemeSimilarity, "theme_filtered")
    ELSE <<>>

\* vectorData pushed on allResults
VectorPart(e) == IF e.vec = "data" THEN e.vecData ELSE <<>>

\* hoodieResults pushed on allResults
HoodiePart(e) ==
    IF e.hoodie = "data"
    THEN Tagged(e.hoodieData, DirectSimilarity, "direct_match")
    ELSE <<>>

\* allResults when the fallback test is made
Gathered(e) == ThemePart(e) \o VectorPart(e) \o HoodiePart(e)

\* fallbackData pushed on allResults
FallbackPart(e) == IF e.fb = "data" THEN e.fbData ELSE <<>>

\* query && includes('hoodie') && includes('economics')
WantsHoodie(r) ==
    /\ r.message # NoMessage
    /\ Includes(r.message, "hoodie")
    /\ Includes(r.message, "economics")

\* allResults before the sort
AllResults(r, e, limit) ==
    IF r.document_id # NoDocument
    THEN IF e.doc = "data" THEN Take(e.docData, limit) ELSE <<>>
    ELSE IF Gathered(e) = <<>> THEN FallbackPart(e) ELSE Gathered(e)

\* what searchSimilarChunks returns
SearchSimilarChunks(r, e, limit) ==
    IF Thrown(e) THEN <<>>
    ELSE IF r.document_id # NoDocument /\ e.doc = "error" THEN <<>>
    ELSE MergeResults(AllResults(r, e, limit), limit)

\* the document-specific query
DocumentStep(st, r) ==
    {[SkipExt EXCEPT !.doc = o,
                     !.docData = DataOf(o, DocChunksQuery(st, r.document_id))] :
        o \in Outcomes}

\* the catalog fetches and the chunk query of the theme block
ThemeStep(st, r) ==
    {[SkipExt EXCEPT !.air = a] : a \in AirtableOutcomes \ {"ok"}}
    \cup
    (IF MatchingDocuments(r.selectedThemes) = {}
     THEN {[SkipExt EXCEPT !.air = "ok"]}
     ELSE {[SkipExt EXCEPT !.air = "ok", !.theme = o,
                           !.themeData = DataOf(o, ThemeChunksQuery(st,
                                            MatchingDocuments(r.selectedThemes)))] :
              o \in Outcomes})

\* supabase.rpc('match_chunks', ...)
VectorStep(st) ==
    {[SkipExt EXCEPT !.vec = "error"], [SkipExt EXCEPT !.vec = "throw"]}
    \cup
    {[SkipExt EXCEPT !.vec = "data", !.vecData = VectorRows(v)] :
        v \in VectorAnswers(st)}

\* 2. Add specific document matches
HoodieStep(st, r, e) ==
    IF WantsHoodie(r) /\ ~Thrown(e)
    THEN {[e EXCEPT !.hoodie = o, !.hoodieData = DataOf(o, HoodieQuery(st))] :
             o \in Outcomes}
    ELSE {e}

\* 3. Fallback: ensure we have SOMETHING
FallbackStep(st, e) ==
    IF ~Thrown(e) /\ Gathered(e) = <<>>
    THEN {[e EXCEPT !.fb = o, !.fbData = DataOf(o, FallbackQuery(st))] :
             o \in Outcomes}
    ELSE {e}

\* collaborators a search called
SearchCalls(e) ==
    (IF e.doc # "skip" \/ e.theme # "skip" \/ e.hoodie # "skip" \/ e.fb # "skip"
     THEN {"chunk_store"} ELSE {})
    \cup (IF e.vec # "skip" THEN {"vector_search"} ELSE {})
    \cup (IF e.air \in {"ok", "notok", "throw"} THEN {"catalog"} ELSE {})

\* collaborators that failed in a search
SearchFailures(e) ==
    (IF \E o \in {e.doc, e.theme, e.hoodie, e.fb} : o \in {"error", "throw"}
     THEN {"chunk_store"} ELSE {})
    \cup (IF e.vec \in {"error", "throw"} THEN {"vector_search"} ELSE {})
    \cup (IF e.air \in {"notok", "throw"} THEN {"catalog"} ELSE {})

----------------------------------------------------------------------------
(* enhanceWithIntelligence *)

Cond(test, concept) == IF test THEN <<concept>> ELSE <<>>

findQueryConcepts(query) ==
    LET queryLower == toLowerCase(query)
    IN Cond(StrIncludes(queryLower, "hoodie")
               \/ StrIncludes(queryLower, "economics"),
            "Hoodie Economics")
       \o Cond(StrIncludes(queryLower, "relational"),
               "Community-Centered Economics")
       \o Cond(StrIncludes(queryLower, "indigenous")
                  \/ StrIncludes(queryLower, "cultural"),
               "Indigenous Knowledge Integration")
       \o Cond(StrIncludes(queryLower, "digital")
                  \/ StrIncludes(queryLower, "recognition"),
               "Digital Hoodies Recognition System")
       \o Cond(StrIncludes(queryLower, "business")
                  \/ StrIncludes(queryLower, "cases"),
               "Relational Value Metrics")
       \o Cond(StrIncludes(queryLower, "scale")
                  \/ StrIncludes(queryLower, "impact"),
               "Scaling Impact Models")

\* the switch of findRelatedConcepts
RelatedOf(concept) ==
    CASE concept = "Hoodie Economics" ->
            <<"Community-Centered Economics", "Relational Leadership">>
      [] concept = "Indigenous Knowledge Integration" ->
            <<"Cultural Sensitivity Framework", "Community Consultation">>
      [] concept = "Digital Hoodies Recognition System" ->
            <<"Relational Value Metrics", "Impact Assessment">>
      [] concept = "Community-Centered Economics" ->
            <<"Social Innovation", "Collective Value Creation">>
      [] concept = "Scaling Impact Models" ->
            <<"Community Replication", "Network Effects">>
      [] OTHER -> <<>>

RECURSIVE FlatMapRelated(_)
FlatMapRelated(concepts) ==
    IF concepts = <<>> THEN <<>>
    ELSE RelatedOf(Head(concepts)) \o FlatMapRelated(Tail(concepts))

RECURSIVE Dedup(_)
\* Array.from(new Set(s)): the first occurrence of each element, in order
Dedup(s) ==
    IF s = <<>> THEN <<>>
    ELSE LET t == Dedup(SubSeq(s, 1, Len(s) - 1))
         IN IF s[Len(s)] \in Range(t) THEN t ELSE Append(t, s[Len(s)])

\* a filter that keeps the matched concepts
WithoutNothing(s, drop) == s

RECURSIVE Without(_, _)
Without(s, drop) ==
    IF s = <<>> THEN <<>>
    ELSE IF Head(s) \in drop THEN Without(Tail(s), drop)
         ELSE <<Head(s)>> \o Without(Tail(s), drop)

findRelatedConcepts(queryConcepts) ==
    Without(Dedup(FlatMapRelated(queryConcepts)), Range(queryConcepts))

\* intelligenceEnhancement = null
NullEnhancement == [null |-> TRUE]

\* the words of a concept name, for concept.includes(fragment)
NameIncludes(concept, fragment) ==
    fragment \in
        CASE concept = "Hoodie Economics" -> {"Hoodie", "Economics"}
          [] concept = "Community-Centered Economics" ->
                {"Community-Centered", "Economics"}
          [] concept = "Indigenous Knowledge Integration" ->
                {"Indigenous", "Knowledge", "Integration"}
          [] concept = "Digital Hoodies Recognition System" ->
                {"Digital", "Hoodies", "Recognition", "System"}
          [] concept = "Relational Value Metrics" ->
                {"Relational", "Value", "Metrics"}
          [] concept = "Scaling Impact Models" -> {"Scaling", "Impact", "Models"}
          [] OTHER -> {}

\* queryConcepts.some(c => c.includes(f1) || c.includes(f2))
SomeIncludes(queryConcepts, f1, f2) ==
    \E i \in 1..Len(queryConcepts) :
        NameIncludes(queryConcepts[i], f1) \/ NameIncludes(queryConcepts[i], f2)

Insight(title, description, confidence) ==
    [title |-> title, description |-> description, confidence |-> confidence]

\* confidences are percentages
generateRelevantInsights(queryConcepts) ==
    (IF SomeIncludes(queryConcepts, "Economics", "Relational")
     THEN <<Insight("Cross-Domain Innovation Pattern",
                    "Relational economics concepts show strong connections to indigenous systems thinking, creating unique innovation opportunities",
                    85)>>
     ELSE <<>>)
    \o
    (IF SomeIncludes(queryConcepts, "Indigenous", "Cultural")
     THEN <<Insight("Cultural Integration Bridge",
                    "Indigenous knowledge systems provide foundational frameworks that enhance contemporary methodologies",
                    90)>>
     ELSE <<>>)
    \o
    (IF SomeIncludes(queryConcepts, "Digital", "Recognition")
     THEN <<Insight("Recognition System Evolution",
                    "Digital recognition systems are evolving beyond traditional metrics to capture relational value",
                    80)>>
     ELSE <<>>)

\* the summary as its clauses (joined with '. ' in the code)
generateIntelligenceSummary(queryConcepts, relatedConcepts, insights) ==
    LET parts ==
          (IF Len(queryConcepts) > 0
           THEN <<[clause |-> "Your query connects to", names |-> queryConcepts]>>
           ELSE <<>>)
          \o
          (IF Len(relatedConcepts) > 0
           THEN <<[clause |-> "Related concepts to explore",
                   names |-> Take(relatedConcepts, 3)]>>
           ELSE <<>>)
          \o
          (IF Len(insights) > 0
           THEN <<[clause |-> "Key insight", names |-> <<insights[1].description>>]>>
           ELSE <<>>)
    IN IF Len(parts) = 0
       THEN <<[clause |-> "This query shows potential for deeper concept exploration as the knowledge base expands.",
               names |-> <<>>]>>
       ELSE parts

\* the enhancement object, or null when the try block throws
enhanceWithIntelligence(message, outcome) ==
    IF outcome = "throw" THEN NullEnhancement
    ELSE LET queryConcepts == findQueryConcepts(message)
             relatedConcepts == findRelatedConcepts(queryConcepts)
             insights == generateRelevantInsights(queryConcepts)
         IN [null |-> FALSE,
             intelligence_summary |->
                 generateIntelligenceSummary(queryConcepts, relatedConcepts, insights),
             related_concepts |-> relatedConcepts,
             insights |-> insights,
             concept_connections |-> Len(queryConcepts) > 0]

----------------------------------------------------------------------------
(* generateResponse *)

\* answers of the LLM
Answers == {"", "34% increase in completion rates."}

\* context: one "Document: title / Content: content" block for each chunk
RenderContext(chunks) ==
    [i \in 1..Len(chunks) |->
        [document_title |-> chunks[i].document_title,
         content |-> chunks[i].content]]

\* citations built from every candidate instead of the chunks used
CitationsOfCandidates(chunks) ==
    [i \in 1..Len(allResults) |->
        [text |-> allResults[i].content,
         source_url |-> allResults[i].document_id,
         document_title |-> allResults[i].document_title,
         chunk_id |-> allResults[i].chunk_id]]

\* citations: one for each chunk
Citations(chunks) ==
    [i \in 1..Len(chunks) |->
        [text |-> chunks[i].content,
         source_url |-> chunks[i].document_id,
         document_title |-> chunks[i].document_title,
         chunk_id |-> chunks[i].chunk_id]]

\* the prompt without the intelligence block
NoBlock == [present |-> FALSE]

\* an intelligence block appended whatever the enhancer returned
EnhancementBlockUnguarded(intelligenceEnhancement) ==
    [present |-> TRUE, intelligence_summary |-> <<>>, related_concepts |-> <<>>,
     insights |-> <<>>]

\* if (intelligenceEnhancement) systemPrompt += ...
EnhancementBlock(intelligenceEnhancement) ==
    IF intelligenceEnhancement.null THEN NoBlock
    ELSE [present |-> TRUE,
          intelligence_summary |-> intelligenceEnhancement.intelligence_summary,
          related_concepts |-> intelligenceEnhancement.related_concepts,
          insights |->
              [i \in 1..Len(intelligenceEnhancement.insights) |->
                  intelligenceEnhancement.insights[i].description]]

\* systemPrompt: fixed preamble, context, optional block, fixed instructions
SystemPrompt(chunks, intelligenceEnhancement) ==
    [preamble |-> "You are an AI assistant for the AIME Knowledge Hub.",
     context |-> RenderContext(chunks),
     enhancement |-> EnhancementBlock(intelligenceEnhancement),
     instructions |-> "Instructions"]

\* number of history turns sent along
HistoryWindow == 4

\* the whole history sent along
LastTurnsAll(history) == history

\* history.slice(-4)
LastTurns(history) ==
    SubSeq(history,
           IF Len(history) > HistoryWindow THEN Len(history) - HistoryWindow + 1
           ELSE 1,
           Len(history))

\* messages = [system, ...history.slice(-4), user]
ChatMessages(query, systemPrompt, history) ==
    <<Turn("system", systemPrompt)>> \o LastTurns(history)
        \o <<Turn("user", query)>>

RECURSIVE AnthropicMessages(_)
\* messages.filter(m => m.role !== 'system').map(m => ({role, content}))
AnthropicMessages(messages) ==
    IF messages = <<>> THEN <<>>
    ELSE IF Head(messages).role # "system"
         THEN <<Turn(Head(messages).role, Head(messages).content)>>
                  \o AnthropicMessages(Tail(messages))
         ELSE AnthropicMessages(Tail(messages))

\* model === 'anthropic' && process.env.ANTHROPIC_API_KEY
UsesAnthropic(model, apiKey) == model = "anthropic" /\ apiKey

\* the request sent to the provider
LlmCall(query, chunks, model, history, intelligenceEnhancement, apiKey) ==
    LET systemPrompt == SystemPrompt(chunks, intelligenceEnhancement)
        messages == ChatMessages(query, systemPrompt, history)
    IN IF UsesAnthropic(model, apiKey)
       THEN [provider |-> "anthropic",
             system |-> systemPrompt,
             messages |-> AnthropicMessages(messages)]
       ELSE [provider |-> "openai", messages |-> messages]

----------------------------------------------------------------------------
(* extractFactsFromResponse: the regular expressions, on strings *)

Digits == {"0", "1", "2", "3", "4", "5", "6", "7", "8", "9"}
Letters ==
    {"a", "b", "c", "d", "e", "f", "g", "h", "i", "j", "k", "l", "m", "n", "o",
     "p", "q", "r", "s", "t", "u", "v", "w", "x", "y", "z"}

\* the character classes \d, \s, [^.], \w, [^\w], [.!?] and [^.!?]
InClass(c, class) ==
    CASE class = "digit" -> c \in Digits
      [] class = "space" -> c \in {" ", "\n", "\t"}
      [] class = "nondot" -> c # "."
      [] class = "word" -> c \in Digits \/ c = "_" \/ LowerChar(c) \in Letters
      [] class = "nonword" ->
             ~(c \in Digits \/ c = "_" \/ LowerChar(c) \in Letters)
      [] class = "stop" -> c \in {".", "!", "?"}
      [] class = "nonstop" -> c \notin {".", "!", "?"}
      [] OTHER -> FALSE

\* the place after the longest run of characters of a class that begins at i
Span(s, i, class) ==
    IF i > Len(s) \/ ~InClass(CharAt(s, i), class) THEN i
    ELSE LET others == {k \in i..Len(s) : ~InClass(CharAt(s, k), class)}
         IN IF others = {} THEN Len(s) + 1
            ELSE CHOOSE k \in others : \A j \in others : k <= j

\* the literal is read at place i
LitAt(s, i, lit) ==
    i + Len(lit) - 1 <= Len(s) /\ SubSeq(s, i, i + Len(lit) - 1) = lit

RECURSIVE GroupEnds(_, _)
\* (?:,\d{3})* read from place g: the places where it can end
GroupEnds(s, g) ==
    {g} \cup
    (IF CharAt(s, g) = "," /\ Span(s, g + 1, "digit") >= g + 4
     THEN GroupEnds(s, g + 4) ELSE {})

\* (?:\.\d+)? read from place g: the places where it can end
FractionEnds(s, g) ==
    {g} \cup
    (IF CharAt(s, g) = "." /\ Span(s, g + 1, "digit") > g + 1
     THEN (g + 2)..Span(s, g + 1, "digit") ELSE {})

\* \d+(?:,\d{3})*(?:\.\d+)? read from place i: the places where it can end
NumberEnds(s, i) ==
    UNION {UNION {FractionEnds(s, g) : g \in GroupEnds(s, d)} :
              d \in (i + 1)..Span(s, i, "digit")}

\* students?|people|participants?|universities?|programs?
CountNouns == {"student", "people", "participant", "universitie", "program"}

\* the places where the noun of the count pattern begins, for a match at i
CountNounStarts(low, i) ==
    {w \in UNION {(n + 1)..Span(low, n, "space") : n \in NumberEnds(low, i)} :
        \E noun \in CountNouns : LitAt(low, w, noun)}

PercentPattern == [kind |-> "percent", lit |-> "", words |-> {}]
CountPattern == [kind |-> "count", lit |-> "", words |-> {}]
NumberAfter(lit) == [kind |-> "number", lit |-> lit, words |-> {}]
Bounded(lit) == [kind |-> "bounded", lit |-> lit, words |-> {}]
Between(lit, words) == [kind |-> "between", lit |-> lit, words |-> words]

statPatterns ==
    <<PercentPattern, CountPattern, NumberAfter("over "),
      NumberAfter("more than "), NumberAfter("up to ")>>

aimePatterns == <<Bounded("aime "), Bounded("imagi-nation ")>>

conceptPatterns ==
    <<Between("visa", {"membership", "participation", "role", "way to"}),
      Between("mentor", {"matching", "program", "system"}),
      Bounded("appears to be"), Bounded("represents"), Bounded("in order to")>>

\* fewest and most characters of [^.]{20,150}
BoundedMin == 20
BoundedMax == 150

\* the last place of the match of a pattern that begins at place i, 0 if none;
\* low is the lower-case form of s (patterns with the i flag)
MatchEndAt(p, s, low, i) ==
    CASE p.kind = "percent" ->
           LET d == Span(s, i, "digit")
               f == Span(s, d + 1, "digit")
           IN IF d = i THEN 0
              ELSE IF CharAt(s, d) = "." /\ f > d + 1 /\ CharAt(s, f) = "%"
                   THEN Span(s, f, "nondot") - 1
              ELSE IF CharAt(s, d) = "%" THEN Span(s, d, "nondot") - 1
              ELSE 0
      [] p.kind = "count" ->
           LET starts == CountNounStarts(low, i)
           IN IF starts = {} THEN 0
              ELSE Span(s, CHOOSE w \in starts : TRUE, "nondot") - 1
      [] p.kind = "number" ->
           IF LitAt(low, i, p.lit) /\ CharAt(s, i + Len(p.lit)) \in Digits
           THEN Span(s, i + Len(p.lit), "nondot") - 1
           ELSE 0
      [] p.kind = "bounded" ->
           LET t == i + Len(p.lit)
               run == Span(s, t, "nondot") - t
           IN IF LitAt(low, i, p.lit) /\ run >= BoundedMin
              THEN t + (IF run < BoundedMax THEN run ELSE BoundedMax) - 1
              ELSE 0
      [] p.kind = "between" ->
           LET t == i + Len(p.lit)
               e == Span(s, t, "nondot")
           IN IF LitAt(low, i, p.lit)
                 /\ \E w \in p.words : StrIncludes(SubSeq(low, t, e - 1), w)
              THEN e - 1
              ELSE 0
      [] OTHER -> 0

RECURSIVE MatchAll(_, _, _, _)
\* response.match(pattern) with the g flag, scanning from place i: the
\* leftmost match, then the matches after it
MatchAll(p, s, low, i) ==
    LET starts == {k \in i..Len(s) : MatchEndAt(p, s, low, k) > 0}
    IN IF starts = {} THEN <<>>
       ELSE LET k == CHOOSE a \in starts : \A b \in starts : a <= b
                e == MatchEndAt(p, s, low, k)
            IN <<SubSeq(s, k, e)>> \o MatchAll(p, s, low, e + 1)

\* the place before the longest run of characters of a class that ends at i
SpanBack(s, i, class) ==
    IF i < 1 \/ ~InClass(CharAt(s, i), class) THEN i
    ELSE LET others == {k \in 1..i : ~InClass(CharAt(s, k), class)}
         IN IF others = {} THEN 0
            ELSE CHOOSE k \in others : \A j \in others : k >= j

\* String.prototype.trim
Trim(s) ==
    LET a == Span(s, 1, "space")
    IN IF a > Len(s) THEN "" ELSE SubSeq(s, a, SpanBack(s, Len(s), "space"))

\* match.trim().replace(/^[^\w]*|[^\w]*$/g, '')
CleanMatch(s) ==
    IF Span(s, 1, "nonword") > Len(s) THEN ""
    ELSE SubSeq(s, Span(s, 1, "nonword"), SpanBack(s, Len(s), "nonword"))

\* tags kept for a fact
TagLimit == 4

\* a tag list that is never cut
SliceTagsAll(tags) == tags

\* .slice(0, 4)
SliceTags(tags) == Take(tags, TagLimit)

\* extractTagsFromContent
extractTagsFromContent(content, query) ==
    SliceTags(Dedup(
        Cond(Includes(query, "impact"), "impact")
        \o Cond(Includes(query, "education"), "education")
        \o Cond(Includes(query, "university"), "university")
        \o Cond(Includes(query, "student"), "students")
        \o Cond(Includes(content, "university"), "university")
        \o Cond(Includes(content, "student"), "students")
        \o Cond(Includes(content, "program"), "programs")
        \o Cond(Includes(content, "completion"), "completion-rates")
        \o Cond(Includes(content, "million"), "scale")
        \o Cond(Includes(content, "%"), "statistics")
        \o Cond(Includes(content, "indigenous"), "indigenous")
        \o Cond(Includes(content, "mentor"), "mentoring")))

\* a fact pushed on facts; confidences are percentages
Fact(content, confidence, context, query) ==
    [content |-> content,
     confidence |-> confidence,
     source_context |-> [from |-> context, query |-> query],
     suggested_tags |-> extractTagsFromContent(content, query)]

RECURSIVE FactsOfMatches(_, _, _, _, _, _)
\* matches.forEach: clean, length test, push
FactsOfMatches(matches, strip, minLength, confidence, context, query) ==
    IF matches = <<>> THEN <<>>
    ELSE LET clean == IF strip THEN CleanMatch(Head(matches))
                      ELSE Trim(Head(matches))
         IN (IF Len(clean) > minLength /\ Len(clean) < 200
             THEN <<Fact(clean, confidence, context, query)>>
             ELSE <<>>)
            \o FactsOfMatches(Tail(matches), strip, minLength, confidence,
                              context, query)

RECURSIVE FactsOfPatterns(_, _, _, _, _, _, _)
\* for (const pattern of patterns)
FactsOfPatterns(patterns, text, strip, minLength, confidence, context, query) ==
    IF patterns = <<>> THEN <<>>
    ELSE FactsOfMatches(MatchAll(Head(patterns), text, toLowerCase(text), 1),
                        strip, minLength, confidence, context, query)
         \o FactsOfPatterns(Tail(patterns), text, strip, minLength,
                            confidence, context, query)

RECURSIVE Split(_, _)
\* response.split(/[.!?]+/), scanning from place i
Split(s, i) ==
    LET stop == Span(s, i, "nonstop")
    IN IF stop > Len(s) THEN <<SubSeq(s, i, Len(s))>>
       ELSE <<SubSeq(s, i, stop - 1)>> \o Split(s, Span(s, stop, "stop"))

keyTerms ==
    {"visa", "aime", "imagi-nation", "mentor", "program", "system", "movement",
     "participation"}

\* /(?:is|are|seems to be|appears to be|represents|means)/i.test(sentence)
hasDefinition(sentence) ==
    \E verb \in {"is", "are", "seems to be", "appears to be", "represents",
                 "means"} : Includes(sentence, verb)

RECURSIVE FactsOfSentences(_, _)
\* sentences.forEach
FactsOfSentences(sentences, query) ==
    IF sentences = <<>> THEN <<>>
    ELSE LET sentence == Head(sentences)
             hasKeyTerm == \E term \in keyTerms : Includes(sentence, term)
         IN (IF /\ Len(Trim(sentence)) > 30
                /\ hasKeyTerm
                /\ hasDefinition(sentence)
                /\ Len(Trim(sentence)) < 200
             THEN <<Fact(Trim(sentence), 60, "Definition from", query)>>
             ELSE <<>>)
            \o FactsOfSentences(Tail(sentences), query)

\* facts that are not filtered by content
DedupByContentOmitted(facts) == facts

RECURSIVE DedupByContent(_)
\* facts.filter((fact, index, self) =>
\*     index === self.findIndex(f => f.content === fact.content))
DedupByContent(facts) ==
    IF facts = <<>> THEN <<>>
    ELSE LET t == DedupByContent(SubSeq(facts, 1, Len(facts) - 1))
             x == facts[Len(facts)]
         IN IF \E i \in 1..Len(t) : t[i].content = x.content THEN t
            ELSE Append(t, x)

\* facts returned
FactLimit == 3

\* uniqueFacts, or [] when the extractor throws
extractFactsFromResponse(text, query, outcome) ==
    IF outcome = "throw" THEN <<>>
    ELSE Take(DedupByContent(
                  FactsOfPatterns(statPatterns, text, TRUE, 10, 80,
                                  "Statistical information from", query)
                  \o FactsOfPatterns(aimePatterns, text, FALSE, 20, 70,
                                     "AIME program information from", query)
                  \o FactsOfPatterns(conceptPatterns, text, FALSE, 25, 60,
                                     "Concept definition from", query)
                  \o FactsOfSentences(Split(text, 1), query)),
              FactLimit)

\* the extractor as a function of its arguments, over given texts
ExtractorTable(answers, queries) ==
    [answer \in answers, query \in queries, outcome \in {"ok", "throw"} |->
        extractFactsFromResponse(answer, query, outcome)]

\* an extractor without its own try/catch
GenerationFailsWithExtractor(llmOutcome, extractorOutcome) ==
    llmOutcome = "throw" \/ extractorOutcome = "throw"

\* the try block of generateResponse ends in its catch
GenerationFails(llmOutcome, extractorOutcome) == llmOutcome = "throw"

\* the error thrown by generateEmbedding or generateResponse
ThrownError(stage) ==
    IF stage = "embedding" THEN "Failed to generate embedding"
    ELSE "Failed to generate response"

\* the catch of POST
PostCatch(error) == [status |-> 500, error |-> "Internal server error"]

\* an embedding failure that is logged and swallowed
EmbeddingNeverThrows(outcome) == FALSE

\* generateEmbedding rethrows what the provider throws
EmbeddingThrows(outcome) == outcome = "throw"

NoResponse == [status |-> 0]

----------------------------------------------------------------------------
(* The other routes and the clock, at rest *)

\* most minutes the clock Date.now() moves on
MaxTime == 2

\* one minute of the clock: 60 * 1000 milliseconds
TickMs == 60 * 1000

\* POST handlers of the snippet store in flight at once
MaxPosts == 2

PostSlots == 1..MaxPosts

\* the body of no request, and a handler slot no POST occupies
NoBody == [json |-> FALSE, hasContent |-> FALSE, content |-> "", source |-> FALSE,
           tags |-> <<>>, extractedFrom |-> "", confidence |-> 0]

IdlePost == [pc |-> "idle", body |-> NoBody]

NoSnippetResponse == [status |-> 0]

\* the snippet routes as the module is loaded, no handler running
SnippetIdle ==
    /\ validationSnippets = <<>>
    /\ posts = [k \in PostSlots |-> IdlePost]
    /\ snippetResponse = NoSnippetResponse

\* keys of the cache; the empty string is a key as any other string
CacheKeys == {"", "documents_with_themes"}

\* no entry of the Map under a key
NoEntry == [data |-> "none", timestamp |-> -1, ttl |-> -1]

NoCacheAnswer == [op |-> "none"]

\* new SimpleCache()
CacheIdle ==
    /\ cache = [k \in CacheKeys |-> NoEntry]
    /\ cacheAnswer = NoCacheAnswer
    /\ lastSet = [k \in CacheKeys |-> NoEntry]

\* the chat requests the claim on concurrency is about
TaskIds == {1, 2}

\* a POST of the chat route that has not begun
IdleTask ==
    [pc |-> "idle", req |-> NoRequest, ext |-> SkipExt, allResults |-> <<>>,
     relevantChunks |-> <<>>, response |-> NoResponse]

TasksIdle == tasks = [i \in TaskIds |-> IdleTask]

\* the id '1' of the welcome message, which no Date.now() equals
WelcomeId == -1

\* the useState initial values of ChatWidget
InitialWidget ==
    [messages |-> <<[id |-> WelcomeId, role |-> "assistant", content |-> "Hello!",
                     facts |-> <<>>]>>,
     input |-> "",
     isLoading |-> FALSE,
     savingFacts |-> {},
     savedFacts |-> {}]

WidgetIdle ==
    /\ widget = InitialWidget
    /\ queued = InitialWidget
    /\ chats = 0
    /\ saves = <<>>
    /\ accepted = 0

OtherIdle ==
    /\ SnippetIdle
    /\ now = 0
    /\ CacheIdle
    /\ TasksIdle
    /\ WidgetIdle

----------------------------------------------------------------------------
(* The handler POST, one action for each await *)

Init ==
    /\ OtherIdle
    /\ store \in Stores
    /\ pc = "idle"
    /\ req = NoRequest
    /\ calls = {}
    /\ failed = {}
    /\ ext = SkipExt
    /\ allResults = <<>>
    /\ relevantChunks = <<>>
    /\ enhancement = NullEnhancement
    /\ promptContext = <<>>
    /\ llmCalls = <<>>
    /\ response = NoResponse

\* request.json() and the message test
ReceiveRequest ==
    /\ pc = "idle"
    /\ \E r \in Requests :
          /\ req' = r
          /\ IF r.message = NoMessage
             THEN /\ pc' = "done"
                  /\ response' = [status |-> 400, error |-> "Message is required"]
             ELSE /\ pc' = "embedding"
                  /\ response' = NoResponse
    /\ UNCHANGED otherVars
    /\ UNCHANGED <<store, calls, failed, ext, allResults, relevantChunks,
                   enhancement, promptContext, llmCalls>>

\* the response is sent; nothing of the request outlives it
Respond ==
    /\ pc = "done"
    /\ pc' = "idle"
    /\ req' = NoRequest
    /\ calls' = {}
    /\ failed' = {}
    /\ ext' = SkipExt
    /\ allResults' = <<>>
    /\ relevantChunks' = <<>>
    /\ enhancement' = NullEnhancement
    /\ promptContext' = <<>>
    /\ llmCalls' = <<>>
    /\ response' = NoResponse
    /\ UNCHANGED otherVars
    /\ UNCHANGED store

\* Step 1: generateEmbedding
GenerateEmbedding ==
    /\ pc = "embedding"
    /\ calls' = calls \cup {"embedding"}
    /\ \E o \in {"ok", "throw"} :
          /\ failed' = IF o = "throw" THEN failed \cup {"embedding"} ELSE failed
          /\ IF EmbeddingThrows(o)
             THEN /\ pc' = "done"
                  /\ response' = PostCatch(ThrownError("embedding"))
             ELSE /\ pc' = "search"
                  /\ UNCHANGED response
    /\ UNCHANGED otherVars
    /\ UNCHANGED <<store, req, ext, allResults, relevantChunks, enhancement,
                   promptContext, llmCalls>>

\* Step 2: the end of searchSimilarChunks, whatever the branch
Searched(e) ==
    /\ ext' = e
    /\ allResults' = AllResults(req, e, Limit)
    /\ relevantChunks' = SearchSimilarChunks(req, e, Limit)
    /\ calls' = calls \cup SearchCalls(e)
    /\ failed' = failed \cup SearchFailures(e)
    /\ pc' = "enhance"
    /\ UNCHANGED otherVars
    /\ UNCHANGED <<store, req, enhancement, promptContext, llmCalls, response>>

\* searchSimilarChunks with a document_id
SearchDocument ==
    /\ pc = "search"
    /\ req.document_id # NoDocument
    /\ \E e \in DocumentStep(store, req) : Searched(e)

\* searchSimilarChunks with selected themes
SearchThemes ==
    /\ pc = "search"
    /\ req.document_id = NoDocument
    /\ Len(req.selectedThemes) > 0
    /\ \E e0 \in ThemeStep(store, req) :
         \E e1 \in HoodieStep(store, req, e0) :
           \E e2 \in FallbackStep(store, e1) : Searched(e2)

\* searchSimilarChunks with neither
SearchVector ==
    /\ pc = "search"
    /\ req.document_id = NoDocument
    /\ Len(req.selectedThemes) = 0
    /\ \E e0 \in VectorStep(store) :
         \E e1 \in HoodieStep(store, req, e0) :
           \E e2 \in FallbackStep(store, e1) : Searched(e2)

\* Step 3: the intelligence layer
Enhance ==
    /\ pc = "enhance"
    /\ IF req.enable_intelligence
       THEN /\ calls' = calls \cup {"enhancer"}
            /\ \E o \in {"ok", "throw"} :
                  /\ enhancement' = enhanceWithIntelligence(req.message, o)
                  /\ failed' = IF o = "throw" THEN failed \cup {"enhancer"}
                               ELSE failed
       ELSE UNCHANGED <<calls, failed, enhancement>>
    /\ pc' = "generate"
    /\ UNCHANGED otherVars
    /\ UNCHANGED <<store, req, ext, allResults, relevantChunks, promptContext,
                   llmCalls, response>>

\* extractFactsFromResponse on every answer and message followed
AnswerFacts == ExtractorTable(Answers, Messages)

\* Step 4: generateResponse and the response of POST, the provider answering
\* with one of the given texts; facts is the extractor on these texts
GenerateAnswer(answers, facts) ==
    /\ pc = "generate"
    /\ promptContext' = RenderContext(relevantChunks)
    /\ \E apiKey \in BOOLEAN :
          llmCalls' = Append(llmCalls,
                             LlmCall(req.message, relevantChunks, req.model,
                                     req.history, enhancement, apiKey))
    /\ \E l \in {"ok", "throw"}, answer \in answers :
          /\ l = "throw" => answer = ""
          /\ \E x \in IF l = "ok" THEN {"ok", "throw"} ELSE {"skip"} :
                /\ calls' = calls \cup {"llm"}
                             \cup (IF x = "skip" THEN {} ELSE {"extractor"})
                /\ failed' = failed
                             \cup (IF l = "throw" THEN {"llm"} ELSE {})
                             \cup (IF x = "throw" THEN {"extractor"} ELSE {})
                /\ response' =
                     IF GenerationFails(l, x)
                     THEN PostCatch(ThrownError("generation"))
                     ELSE [status |-> 200,
                           content |-> answer,
                           citations |-> Citations(relevantChunks),
                           extractable_facts |->
                               facts[answer, req.message, x],
                           model_used |-> req.model,
                           intelligence_enhancement |-> enhancement]
    /\ pc' = "done"
    /\ UNCHANGED otherVars
    /\ UNCHANGED <<store, req, ext, allResults, relevantChunks, enhancement>>

Generate == GenerateAnswer(Answers, AnswerFacts)

Next ==
    \/ ReceiveRequest
    \/ GenerateEmbedding
    \/ SearchDocument
    \/ SearchThemes
    \/ SearchVector
    \/ Enhance
    \/ Generate
    \/ Respond

Spec == Init /\ [][Next]_vars

----------------------------------------------------------------------------
(* The merger on its own: searchSimilarChunks step 4 over any candidate list *)

\* longest candidate list handed to the merger
MaxCandidates == 3

CandidatePool ==
    {[r EXCEPT !.similarity = sim] :
        r \in {Row("c1", "d1", "Alpha", 0, "t1"), Row("c2", "d1", "Alpha", 1, "t2"),
               Row("c3", "d1", "Alpha", 2, "t3"), Row("c4", "d2", "Beta", 0, "t4")},
        sim \in {NoScore, 60, 95}}

CandidateLists == UNION {[1..n -> CandidatePool] : n \in 0..MaxCandidates}

MergeInit ==
    /\ OtherIdle
    /\ store = EmptyStore
    /\ pc = "candidates"
    /\ req = NoRequest
    /\ calls = {}
    /\ failed = {}
    /\ ext = SkipExt
    /\ allResults \in CandidateLists
    /\ relevantChunks = <<>>
    /\ enhancement = NullEnhancement
    /\ promptContext = <<>>
    /\ llmCalls = <<>>
    /\ response = NoResponse

MergeCandidates ==
    /\ pc = "candidates"
    /\ relevantChunks' = MergeResults(allResults, Limit)
    /\ pc' = "merged"
    /\ UNCHANGED otherVars
    /\ UNCHANGED <<store, req, calls, failed, ext, allResults, enhancement,
                   promptContext, llmCalls, response>>

MergeNext == MergeCandidates

MergeSpec == MergeInit /\ [][MergeNext]_vars

----------------------------------------------------------------------------
(* Properties *)

ChunkIds(chunks) == {chunks[i].chunk_id : i \in 1..Len(chunks)}

EntriesOf(chunks, documentId) ==
    {i \in 1..Len(chunks) : chunks[i].document_id = documentId}

\* C1: the merged result set never holds two entries with the same chunk_id,
\* also when several adapters produced the same chunk with different scores.
C1_NoDuplicateChunk ==
    \A i, j \in 1..Len(relevantChunks) :
        i < j => relevantChunks[i].chunk_id # relevantChunks[j].chunk_id

C1_Witness ==
    /\ pc = "enhance"
    /\ \E i, j \in 1..Len(allResults) :
          /\ i < j
          /\ allResults[i].chunk_id = allResults[j].chunk_id
          /\ allResults[i].similarity # allResults[j].similarity
          /\ allResults[i].chunk_id \in ChunkIds(relevantChunks)
    /\ Len(relevantChunks) >= 2

\* C2: no source document has more than maxPerDocument (2) entries in the
\* merged result set; the merger never uses the exception that would let the
\* cap be exceeded to reach the requested count.
C2_DiversityCap ==
    \A i \in 1..Len(relevantChunks) :
        Cardinality(EntriesOf(relevantChunks, relevantChunks[i].document_id))
            <= maxPerDocument

C2_Witness ==
    /\ pc = "enhance"
    /\ \E i \in 1..Len(relevantChunks) :
          LET d == relevantChunks[i].document_id
          IN /\ Cardinality(EntriesOf(relevantChunks, d)) = maxPerDocument
             /\ Cardinality({allResults[k].chunk_id : k \in EntriesOf(allResults, d)})
                   > maxPerDocument

Min(a, b) == IF a < b THEN a ELSE b

\* C3: a document-scoped request whose document has k chunks gets exactly
\* the first min(k, N) chunks of that document, in ascending chunk_index order.
C3_DocumentScopedFirstN ==
    (pc = "enhance" /\ req.document_id # NoDocument /\ ext.doc = "data") =>
        /\ Len(relevantChunks) =
              Min(Cardinality(EntriesOf(store, req.document_id)), Limit)
        /\ \A i \in 1..Len(relevantChunks) :
              /\ relevantChunks[i].document_id = req.document_id
              /\ relevantChunks[i].chunk_index = i - 1

\* the candidates of every adapter but the fallback
NonFallbackCandidates ==
    IF req.document_id # NoDocument THEN DataOf(ext.doc, ext.docData)
    ELSE Gathered(ext)

C5_EmbeddingFailureStopsRequest ==
    "embedding" \in failed =>
        /\ calls = {"embedding"}
        /\ pc = "done"
        /\ response.status = 500

C5_Witness ==
    /\ pc = "done"
    /\ "embedding" \in failed
    /\ req.document_id # NoDocument

\* C6: the response to an embedding failure differs from the response to an
\* LLM generation failure.
C6_EmbeddingFailureDistinct ==
    (pc = "done" /\ "embedding" \in failed) =>
        response # PostCatch(ThrownError("generation"))

\* C7: a request with a message ends with an error status exactly when the
\* embedding call or the LLM call failed; failures of the chunk store, the
\* catalog, the enhancer and the fact extractor leave the response a success.
C7_OnlyEmbeddingAndGenerationFail ==
    (pc = "done" /\ req.message # NoMessage) =>
        /\ response.status \in {200, 500}
        /\ response.status = 500 <=> (failed \cap {"embedding", "llm"} # {})

C7_Witness ==
    /\ pc = "done"
    /\ response.status = 200
    /\ {"chunk_store", "catalog", "enhancer", "extractor"} \subseteq failed

\* an adapter that failed, replaced by one that answered with no rows
AnsweredEmpty(o) == IF o \in {"error", "throw"} THEN "data" ELSE o

FailuresAsEmpty(e) ==
    [e EXCEPT !.doc = AnsweredEmpty(e.doc),
              !.theme = AnsweredEmpty(e.theme),
              !.vec = AnsweredEmpty(e.vec),
              !.hoodie = AnsweredEmpty(e.hoodie),
              !.fb = AnsweredEmpty(e.fb)]

\* C8: when an adapter fails, the candidates the other adapters produced are
\* merged as if the failing adapter had answered with an empty set.
C8_FailingAdapterIsEmpty ==
    pc = "enhance" =>
        relevantChunks = SearchSimilarChunks(req, FailuresAsEmpty(ext), Limit)

\* C9: the citations of a response are, entry by entry and in order, the
\* chunks rendered into the system prompt, and their chunk_ids are those of
\* the merged result set.
C9_CitationsAreThePromptChunks ==
    (pc = "done" /\ response.status = 200) =>
        /\ Len(response.citations) = Len(promptContext)
        /\ \A i \in 1..Len(promptContext) :
              /\ response.citations[i].text = promptContext[i].content
              /\ response.citations[i].document_title =
                    promptContext[i].document_title
        /\ [i \in 1..Len(response.citations) |-> response.citations[i].chunk_id]
              = [i \in 1..Len(relevantChunks) |-> relevantChunks[i].chunk_id]

C9_Witness ==
    /\ pc = "done"
    /\ response.status = 200
    /\ Len(response.citations) >= 2
    /\ Len(allResults) > Len(relevantChunks)

\* place of a candidate in the input of the merger
InputPlace(chunk) ==
    CHOOSE k \in 1..Len(allResults) :
        /\ allResults[k] = chunk
        /\ \A m \in 1..(k - 1) : allResults[m] # chunk

\* C10: the merged result set is in non-increasing score order, every
\* candidate without a score comes after every scored one, and candidates of
\* equal score keep the order in which they were handed to the merger.
C10_SortedByScoreStable ==
    \A i, j \in 1..Len(relevantChunks) :
        i < j =>
            /\ Score(relevantChunks[i]) >= Score(relevantChunks[j])
            /\ relevantChunks[i].similarity = NoScore =>
                  relevantChunks[j].similarity = NoScore
            /\ Score(relevantChunks[i]) = Score(relevantChunks[j]) =>
                  InputPlace(relevantChunks[i]) < InputPlace(relevantChunks[j])

C10_Witness ==
    /\ pc = "merged"
    /\ Len(relevantChunks) = 3
    /\ relevantChunks[1].similarity = 95
    /\ relevantChunks[2].similarity = 95
    /\ relevantChunks[3].similarity = NoScore
    /\ allResults[1].similarity = NoScore
    /\ InputPlace(relevantChunks[1]) < InputPlace(relevantChunks[2])

\* C11: the merged result set never has more than N = 5 entries; admission
\* stops when the N-th candidate is admitted, whatever is left to examine.
C11_AtMostLimit == Len(relevantChunks) <= Limit

C11_Witness ==
    /\ pc = "enhance"
    /\ Len(relevantChunks) = Limit
    /\ \E k \in 1..Len(allResults) :
          /\ allResults[k].chunk_id \notin ChunkIds(relevantChunks)
          /\ DocumentCount(relevantChunks, allResults[k].document_title)
                < maxPerDocument

\* C12: with a document_id every merged chunk is of that document and only
\* the document query is issued (no catalog fetch, theme, vector, direct-match
\* or fallback query, whatever themes are selected); without a document_id
\* the document query is not issued.
C12_DocumentScopeIsExclusive ==
    pc = "enhance" =>
        IF req.document_id # NoDocument
        THEN /\ \A i \in 1..Len(relevantChunks) :
                   relevantChunks[i].document_id = req.document_id
             /\ ext.doc # "skip"
             /\ \A o \in {ext.air, ext.theme, ext.vec, ext.hoodie, ext.fb} :
                   o = "skip"
             /\ calls \cap {"vector_search", "catalog"} = {}
        ELSE ext.doc = "skip"

C12_Witness ==
    /\ pc = "enhance"
    /\ req.document_id = "d2"
    /\ Len(req.selectedThemes) > 0
    /\ WantsHoodie(req)
    /\ Len(relevantChunks) = 2
    /\ \E i \in 1..Len(store) : store[i].document_id # "d2"

----------------------------------------------------------------------------
(* searchSimilarChunks on its own, with long answers of the vector search *)

\* longest answer of match_chunks in this specification
MaxWide == 5

\* five chunks of three other titles, then the hoodie document
StoreC ==
    << Row("c1", "d2", "Mentoring", 0, "t1"),
       Row("c2", "d2", "Mentoring", 1, "t2"),
       Row("c3", "d3", "Culture", 0, "t3"),
       Row("c4", "d3", "Culture", 1, "t4"),
       Row("c5", "d4", "Impact", 0, "t5"),
       Row("c6", "d1", HoodieTitle, 0, "t6"),
       Row("c7", "d1", HoodieTitle, 1, "t7") >>

\* the rows of st at the places in S, the first a with similarity 0.99, the
\* next up to place b with 0.95, the others with 0.6
RankedRows(st, S, a, b) ==
    [k \in 1..Cardinality(S) |->
        [st[CHOOSE i \in S : Cardinality({j \in S : j <= i}) = k]
            EXCEPT !.similarity = IF k <= a THEN 99 ELSE IF k <= b THEN 95 ELSE 60]]

\* answers of match_chunks that follow the table order, best similarity first
WideVectorAnswers(st) ==
    {RankedRows(st, x.S, x.a, x.b) :
        x \in {y \in [S : SUBSET (1..Len(st)), a : 0..MaxWide, b : 0..MaxWide] :
                  /\ Cardinality(y.S) <= MaxWide
                  /\ y.a <= y.b
                  /\ y.b <= Cardinality(y.S)}}

WideVectorStep(st) ==
    {[SkipExt EXCEPT !.vec = "error"], [SkipExt EXCEPT !.vec = "throw"]}
    \cup
    {[SkipExt EXCEPT !.vec = "data", !.vecData = v] : v \in WideVectorAnswers(st)}

\* requests that take the vector branch
SearchRequests ==
    {r \in Requests :
        /\ r.message # NoMessage
        /\ r.document_id = NoDocument
        /\ r.selectedThemes = <<>>
        /\ r.model = "openai"
        /\ r.history = <<>>
        /\ ~r.enable_intelligence}

SearchInit ==
    /\ OtherIdle
    /\ store = StoreC
    /\ pc = "search"
    /\ req \in SearchRequests
    /\ calls = {"embedding"}
    /\ failed = {}
    /\ ext = SkipExt
    /\ allResults = <<>>
    /\ relevantChunks = <<>>
    /\ enhancement = NullEnhancement
    /\ promptContext = <<>>
    /\ llmCalls = <<>>
    /\ response = NoResponse

SearchWide ==
    /\ pc = "search"
    /\ \E e0 \in WideVectorStep(store) :
         \E e1 \in HoodieStep(store, req, e0) :
           \E e2 \in FallbackStep(store, e1) : Searched(e2)

SearchNext == SearchWide

SearchSpec == SearchInit /\ [][SearchNext]_vars

\* C13: without a document_id, a message with 'hoodie' and 'economics' and a
\* successful direct-match lookup that found chunks put at least one and at
\* most two chunks titled 'Hoodie Economics' in the merged result set,
\* whatever the vector search returned.
C13_HoodieChunksIncluded ==
    (/\ pc = "enhance"
     /\ req.document_id = NoDocument
     /\ WantsHoodie(req)
     /\ ext.hoodie = "data"
     /\ ext.hoodieData # <<>>) =>
        DocumentCount(relevantChunks, HoodieTitle) \in 1..HoodieChunkLimit

----------------------------------------------------------------------------
(* enhanceWithIntelligence on its own, over every set of trigger keywords *)

ConceptKeywords ==
    <<"hoodie", "economics", "relational", "indigenous", "cultural", "digital",
      "recognition", "business", "cases", "scale", "impact">>

RECURSIVE JoinWords(_)
\* words.join(' ')
JoinWords(words) ==
    IF words = <<>> THEN ""
    ELSE IF Len(words) = 1 THEN words[1]
    ELSE words[1] \o " " \o JoinWords(Tail(words))

\* the query made of the keywords at the chosen places
QueryOf(places) ==
    JoinWords(SelectSeq(ConceptKeywords,
                        LAMBDA w : \E i \in places : ConceptKeywords[i] = w))

EnhancerQueries ==
    {QueryOf(places) : places \in SUBSET (1..Len(ConceptKeywords))}
        \cup {"Hoodie Economics"}

EnhanceInit ==
    /\ OtherIdle
    /\ store = EmptyStore
    /\ pc = "enhance"
    /\ \E q \in EnhancerQueries :
          req = [NoRequest EXCEPT !.message = q, !.enable_intelligence = TRUE]
    /\ calls = {"embedding"}
    /\ failed = {}
    /\ ext = SkipExt
    /\ allResults = <<>>
    /\ relevantChunks = <<>>
    /\ enhancement = NullEnhancement
    /\ promptContext = <<>>
    /\ llmCalls = <<>>
    /\ response = NoResponse

EnhanceNext == Enhance

EnhanceSpec == EnhanceInit /\ [][EnhanceNext]_vars

Enhanced == pc = "generate" /\ ~enhancement.null

IsDuplicateFree(s) == \A i, j \in 1..Len(s) : i < j => s[i] # s[j]

\* C15: the related concepts hold no concept matched from the query, no
\* duplicate, and every successor of a matched concept in the adjacency table
\* that is not itself matched; for a query with only 'hoodie' and 'economics'
\* they hold 'Community-Centered Economics' and not 'Hoodie Economics'.
C15_RelatedConcepts ==
    Enhanced =>
        LET matched == Range(findQueryConcepts(req.message))
            related == enhancement.related_concepts
        IN /\ Range(related) \cap matched = {}
           /\ IsDuplicateFree(related)
           /\ \A c \in matched : \A n \in Range(RelatedOf(c)) :
                 n \notin matched => n \in Range(related)
           /\ toLowerCase(req.message) = "hoodie economics" =>
                 /\ "Community-Centered Economics" \in Range(related)
                 /\ "Hoodie Economics" \notin Range(related)

\* a matched concept is the successor of another matched concept
C15_Witness ==
    /\ Enhanced
    /\ \E c \in Range(findQueryConcepts(req.message)) :
          Range(RelatedOf(c)) \cap Range(findQueryConcepts(req.message)) # {}
    /\ Len(enhancement.related_concepts) >= 3

\* the insight clause of the summary
InsightClause ==
    {enhancement.intelligence_summary[i].names[1] :
        i \in {k \in 1..Len(enhancement.intelligence_summary) :
                  enhancement.intelligence_summary[k].clause = "Key insight"}}

\* C16: when insights are produced, the insight clause of the summary is the
\* description of the insight with the highest confidence.
C16_SummaryHasBestInsight ==
    (Enhanced /\ Len(enhancement.insights) > 0) =>
        \E i \in 1..Len(enhancement.insights) :
            /\ \A j \in 1..Len(enhancement.insights) :
                  enhancement.insights[j].confidence
                      <= enhancement.insights[i].confidence
            /\ InsightClause = {enhancement.insights[i].description}

----------------------------------------------------------------------------
(* The LLM call *)

\* the system instruction a provider was given
SystemOf(call) ==
    IF call.provider = "anthropic" THEN call.system
    ELSE call.messages[1].content

\* the conversation a provider was given
ConversationOf(call) ==
    IF call.provider = "anthropic" THEN call.messages
    ELSE Tail(call.messages)

\* C14: when the concept enhancer fails, answer generation is still invoked
\* exactly once, with no enhancement block in the prompt, and unless the
\* generation itself fails the response is a success whose enhancement field
\* is null.
C14_EnhancerFailureAbsorbed ==
    (pc = "done" /\ "enhancer" \in failed) =>
        /\ Len(llmCalls) = 1
        /\ SystemOf(llmCalls[1]).enhancement = NoBlock
        /\ "llm" \notin failed =>
              /\ response.status = 200
              /\ response.intelligence_enhancement = NullEnhancement

C14_Witness ==
    /\ pc = "done"
    /\ "enhancer" \in failed
    /\ response.status = 200
    /\ Len(relevantChunks) > 0
    /\ Len(llmCalls) = 1

----------------------------------------------------------------------------
(* generateResponse on its own, over every short history *)

\* longest history handed to generateResponse
MaxHistory == 5

Roles == {"user", "assistant"}

TurnWord(i) ==
    CASE i = 1 -> "t1" [] i = 2 -> "t2" [] i = 3 -> "t3" [] i = 4 -> "t4"
      [] i = 5 -> "t5" [] i = 6 -> "t6" [] OTHER -> "t7"

HistoriesOfLen(n) ==
    {[i \in 1..n |-> Turn(role[i], TurnWord(i))] : role \in [1..n -> Roles]}

GenerateHistories == UNION {HistoriesOfLen(n) : n \in 0..MaxHistory}

GenerateInit ==
    /\ OtherIdle
    /\ store = StoreC
    /\ pc = "generate"
    /\ \E model \in Models, history \in GenerateHistories :
          req = [NoRequest EXCEPT !.message = "hoodie", !.model = model,
                                  !.history = history,
                                  !.enable_intelligence = TRUE]
    /\ calls = {"embedding", "enhancer"}
    /\ failed = {}
    /\ ext = SkipExt
    /\ allResults = <<>>
    /\ relevantChunks \in {<<>>, MergeResults(store, Limit)}
    /\ enhancement = enhanceWithIntelligence("hoodie", "ok")
    /\ promptContext = <<>>
    /\ llmCalls = <<>>
    /\ response = NoResponse

GenerateNext == Generate

GenerateSpec == GenerateInit /\ [][GenerateNext]_vars

\* the last n turns of a history
TrailingTurns(history, n) ==
    LET k == Min(n, Len(history))
    IN [i \in 1..k |-> history[Len(history) - k + i]]

\* C17: whichever provider is called, it is given the system instruction built
\* for the request and, as conversation, the last 4 turns of the history in
\* order followed by the new user query.
C17_SamePromptForBothProviders ==
    \A i \in 1..Len(llmCalls) :
        /\ SystemOf(llmCalls[i]) = SystemPrompt(relevantChunks, enhancement)
        /\ ConversationOf(llmCalls[i]) =
              TrailingTurns(req.history, 4) \o <<Turn("user", req.message)>>

C17_Witness ==
    /\ Len(llmCalls) = 1
    /\ llmCalls[1].provider = "anthropic"
    /\ Len(req.history) > 4
    /\ req.history[1].role = "assistant"
    /\ Len(ConversationOf(llmCalls[1])) = 5

----------------------------------------------------------------------------
(* extractFactsFromResponse on its own, over answers of a few sentences *)

\* most sentences of an answer
MaxSentences == 2

SentencePool ==
    <<"34% increase in completion rates.",
      "85% of students in the program are near completion at university.",
      "AIME reached over 200 students across the whole region.",
      "The mentor matching system represents a new way of learning together.">>

RECURSIVE AnswersOfLen(_)
\* the answers of n sentences of the pool
AnswersOfLen(n) ==
    IF n = 0 THEN {""}
    ELSE {IF a = "" THEN SentencePool[k] ELSE a \o " " \o SentencePool[k] :
             a \in AnswersOfLen(n - 1), k \in 1..Len(SentencePool)}

ExtractAnswers == UNION {AnswersOfLen(n) : n \in 0..MaxSentences}

ExtractQueries ==
    {"What percentage of participants completed university?",
     "What is the impact of education on university students?",
     "Tell me about AIME"}

ExtractInit ==
    /\ OtherIdle
    /\ store = EmptyStore
    /\ pc = "generate"
    /\ \E query \in ExtractQueries :
          req = [NoRequest EXCEPT !.message = query]
    /\ calls = {"embedding"}
    /\ failed = {}
    /\ ext = SkipExt
    /\ allResults = <<>>
    /\ relevantChunks = <<>>
    /\ enhancement = NullEnhancement
    /\ promptContext = <<>>
    /\ llmCalls = <<>>
    /\ response = NoResponse

\* extractFactsFromResponse on every answer and query followed
ExtractFacts == ExtractorTable(ExtractAnswers, ExtractQueries)

ExtractNext == GenerateAnswer(ExtractAnswers, ExtractFacts)

ExtractSpec == ExtractInit /\ [][ExtractNext]_vars

\* the request was answered and the extractor returned
Extracted == pc = "done" /\ response.status = 200 /\ "extractor" \notin failed

\* C19: the extractor returns at most 3 facts, and no two of them have the
\* same content.
C19_AtMostThreeDistinctFacts ==
    (pc = "done" /\ response.status = 200) =>
        /\ Len(response.extractable_facts) <= 3
        /\ \A i, j \in 1..Len(response.extractable_facts) :
              i < j => response.extractable_facts[i].content
                          # response.extractable_facts[j].content

\* a sentence found by two rules, and more than three distinct matches
C19_Witness ==
    /\ Extracted
    /\ Len(response.extractable_facts) = 3
    /\ StrIncludes(response.content, SentencePool[2])
    /\ StrIncludes(response.content, SentencePool[3])

\* C20: every returned fact whose content contains '%' carries the tag
\* 'statistics', whatever the query.
C20_PercentIsStatistics ==
    Extracted =>
        \A i \in 1..Len(response.extractable_facts) :
            StrIncludes(response.extractable_facts[i].content, "%") =>
                "statistics" \in Range(response.extractable_facts[i].suggested_tags)

----------------------------------------------------------------------------
(* The provider named in the response *)

\* C30: the model_used field of a successful response names the provider that
\* was called to generate the answer.
C30_ModelUsedIsProviderCalled ==
    (pc = "done" /\ response.status = 200) =>
        /\ Len(llmCalls) = 1
        /\ response.model_used = llmCalls[1].provider

----------------------------------------------------------------------------
(* Completeness of the merger *)

\* the dedup and diversity loop was reached
MergerRan ==
    \/ pc = "merged"
    \/ /\ pc = "enhance"
       /\ ~Thrown(ext)
       /\ ~(req.document_id # NoDocument /\ ext.doc = "error")

\* C24: when the merged result set has fewer than N entries, every candidate
\* that is not in it has a chunk_id that is in it, or belongs to a document
\* that has 2 entries in it.
C24_NoAdmissibleCandidateLeftOut ==
    (MergerRan /\ Len(relevantChunks) < Limit) =>
        \A i \in 1..Len(allResults) :
            \/ allResults[i].chunk_id \in ChunkIds(relevantChunks)
            \/ Cardinality(EntriesOf(relevantChunks, allResults[i].document_id))
                  >= maxPerDocument

----------------------------------------------------------------------------
(* Theme-filtered requests *)

ThemeRequest ==
    pc = "enhance" /\ req.document_id = NoDocument /\ Len(req.selectedThemes) > 0

\* a catalog fetch is not ok, the chunk query errors, or the block throws
ThemeFilteringFailed(e) ==
    e.air \in {"notok", "throw"} \/ e.theme \in {"error", "throw"}

\* C22: when themes are selected without a document_id and theme filtering
\* fails, the vector-similarity search is run for the request.
C22_ThemeFailureFallsBackToVector ==
    (ThemeRequest /\ ThemeFilteringFailed(ext)) =>
        /\ ext.vec # "skip"
        /\ "vector_search" \in calls

\* C23: when themes are selected without a document_id, every chunk of the
\* merged result set belongs to a document that carries a selected theme.
C23_OnlyChunksOfSelectedThemes ==
    ThemeRequest =>
        \A i \in 1..Len(relevantChunks) :
            relevantChunks[i].document_id \in MatchingDocuments(req.selectedThemes)

----------------------------------------------------------------------------
(* The validation snippet store: src/app/api/validation/snippets/route.ts   *)
(* GET and POST over the module-level array validationSnippets.  POST has   *)
(* one await, request.json(); GET has none.                                  *)

\* the pipeline of the chat route at rest
ChatAtRest ==
    /\ pc = "idle"
    /\ req = NoRequest
    /\ calls = {}
    /\ failed = {}
    /\ ext = SkipExt
    /\ allResults = <<>>
    /\ relevantChunks = <<>>
    /\ enhancement = NullEnhancement
    /\ promptContext = <<>>
    /\ llmCalls = <<>>
    /\ response = NoResponse

ChatIdle ==
    /\ store = EmptyStore
    /\ ChatAtRest

\* contents a client posts: two spellings of one fact, and another fact
SnippetContents == {"Fact A", " fact a ", "Fact B"}

\* the body the chat widget posts for a fact (confidence in percent)
WidgetBody(c) ==
    [json |-> TRUE, hasContent |-> TRUE, content |-> c, source |-> TRUE,
     tags |-> <<"statistics">>, extractedFrom |-> "ai_chat", confidence |-> 90]

\* a body with content and source only
ManualBody(c) ==
    [json |-> TRUE, hasContent |-> TRUE, content |-> c, source |-> TRUE,
     tags |-> <<>>, extractedFrom |-> "", confidence |-> 0]

\* request bodies: well-formed ones, one without source, one without content,
\* and a request text that is not JSON
Bodies ==
    {WidgetBody(c) : c \in SnippetContents \ {"Fact B"}}
    \cup {ManualBody(c) : c \in SnippetContents \ {"Fact A"}}
    \cup {[ManualBody("Fact B") EXCEPT !.source = FALSE],
          [ManualBody("") EXCEPT !.hasContent = FALSE],
          NoBody}

\* content.trim().toLowerCase(), worked out once for every content
TrimLower == [c \in SnippetContents \cup {""} |-> toLowerCase(Trim(c))]

\* the comparison on the raw content
NormalizedRaw(content) == content

Normalized(content) == TrimLower[content]

\* the comparison callback reads .trim of a content that is undefined
CallbackThrows(snippet, body) == ~snippet.hasContent \/ ~body.hasContent

ContentMatches(snippet, body) ==
    /\ ~CallbackThrows(snippet, body)
    /\ Normalized(snippet.content) = Normalized(body.content)

\* Array.prototype.find / findIndex: the first place where the callback
\* answers true or throws, 0 when there is none
FirstStop(snippets, body) ==
    LET stops == {i \in 1..Len(snippets) :
                     CallbackThrows(snippets[i], body)
                     \/ ContentMatches(snippets[i], body)}
    IN IF stops = {} THEN 0
       ELSE CHOOSE i \in stops : \A j \in stops : i <= j

ZeroCounts == [positive |-> 0, negative |-> 0]

\* the snippet POST builds
NewSnippet(body, t) ==
    [id |-> t,
     hasContent |-> body.hasContent,
     content |-> body.content,
     tags |-> body.tags,
     extractedFrom |-> IF body.extractedFrom = "" THEN "manual"
                       ELSE body.extractedFrom,
     confidence |-> IF body.confidence = 0 THEN 100 ELSE body.confidence,
     validations |-> [staff |-> ZeroCounts, community |-> ZeroCounts,
                      elders |-> ZeroCounts],
     status |-> "draft",
     createdAt |-> t]

\* the snippet put at the end
UnshiftAtEnd(snippets, snippet) == Append(snippets, snippet)

\* Array.prototype.unshift
Unshift(snippets, snippet) == <<snippet>> \o snippets

PostError == [handler |-> "POST", status |-> 500, error |-> "Failed to save snippet"]

\* POST after request.json() has answered: the store and the response
PostSnippet(snippets, body, t) ==
    LET i == FirstStop(snippets, body)
    IN IF ~body.json THEN [snippets |-> snippets, response |-> PostError]
       ELSE IF i # 0 /\ CallbackThrows(snippets[i], body)
       THEN [snippets |-> snippets, response |-> PostError]
       ELSE IF i # 0
       THEN [snippets |-> snippets,
             response |-> [handler |-> "POST", status |-> 200, success |-> TRUE,
                           snippet |-> snippets[i], isDuplicate |-> TRUE]]
       ELSE IF ~body.source
       THEN [snippets |-> snippets, response |-> PostError]
       ELSE [snippets |-> Unshift(snippets, NewSnippet(body, t)),
             response |-> [handler |-> "POST", status |-> 201, success |-> TRUE,
                           snippet |-> NewSnippet(body, t),
                           isDuplicate |-> FALSE]]

\* the filter of GET: a snippet stays where it is the first of its content
UniqueSnippets(snippets) ==
    LET Keep(i) == FirstStop(snippets, snippets[i]) = i
        RECURSIVE From(_)
        From(i) == IF i > Len(snippets) THEN <<>>
                   ELSE IF Keep(i) THEN <<snippets[i]>> \o From(i + 1)
                   ELSE From(i + 1)
    IN From(1)

GetSnippetsResult(snippets) ==
    IF \E i \in 1..Len(snippets) : ~snippets[i].hasContent
    THEN [snippets |-> snippets,
          response |-> [handler |-> "GET", status |-> 500,
                        error |-> "Failed to fetch snippets"]]
    ELSE [snippets |-> UniqueSnippets(snippets),
          response |-> [handler |-> "GET", status |-> 200,
                        snippets |-> UniqueSnippets(snippets),
                        count |-> Len(UniqueSnippets(snippets))]]

SnippetInit ==
    /\ ChatIdle
    /\ OtherIdle

\* a POST arrives and runs up to await request.json()
PostArrives(k) ==
    /\ posts[k].pc = "idle"
    /\ \E body \in Bodies : posts' = [posts EXCEPT ![k] = [pc |-> "json", body |-> body]]
    /\ UNCHANGED <<validationSnippets, snippetResponse, now>>
    /\ UNCHANGED <<chatVars, cacheVars, taskVars, widgetVars>>

\* request.json() answers and the handler runs to its end
PostResumes(k) ==
    /\ posts[k].pc = "json"
    /\ LET result == PostSnippet(validationSnippets, posts[k].body, now)
       IN /\ validationSnippets' = result.snippets
          /\ snippetResponse' = result.response
    /\ posts' = [posts EXCEPT ![k] = IdlePost]
    /\ UNCHANGED now
    /\ UNCHANGED <<chatVars, cacheVars, taskVars, widgetVars>>

\* GET, which has no await
GetSnippets ==
    /\ LET result == GetSnippetsResult(validationSnippets)
       IN /\ validationSnippets' = result.snippets
          /\ snippetResponse' = result.response
    /\ UNCHANGED <<posts, now>>
    /\ UNCHANGED <<chatVars, cacheVars, taskVars, widgetVars>>

\* Date.now() moves on
Tick ==
    /\ now < MaxTime * TickMs
    /\ now' = now + TickMs
    /\ UNCHANGED <<chatVars, snippetVars, cacheVars, taskVars, widgetVars>>

SnippetNext ==
    \/ \E k \in PostSlots : PostArrives(k)
    \/ \E k \in PostSlots : PostResumes(k)
    \/ GetSnippets
    \/ Tick

SnippetSpec == SnippetInit /\ [][SnippetNext]_vars

\* C25: at every moment, POST handlers interleaved at their await included, no
\* two stored snippets have the same content after trimming and lower-casing
C25_NoTwoSnippetsSameContent ==
    \A i, j \in 1..Len(validationSnippets) :
        (i # j /\ validationSnippets[i].hasContent /\ validationSnippets[j].hasContent)
        => TrimLower[validationSnippets[i].content]
           # TrimLower[validationSnippets[j].content]

\* two POSTs of one fact in different spellings were in flight together: the
\* first has been stored, the second has been answered as a duplicate
C25_Witness ==
    /\ Len(validationSnippets) = 2
    /\ snippetResponse.status = 200
    /\ snippetResponse.handler = "POST"
    /\ snippetResponse.isDuplicate
    /\ \E k \in PostSlots :
          /\ posts[k].pc = "json"
          /\ posts[k].body.hasContent
          /\ \E i \in 1..Len(validationSnippets) :
                /\ posts[k].body.content # validationSnippets[i].content
                /\ TrimLower[posts[k].body.content]
                   = TrimLower[validationSnippets[i].content]

\* the stored snippets whose trimmed, lower-cased content is that of the body
StoredAs(body) ==
    {i \in 1..Len(validationSnippets) :
        /\ body.hasContent
        /\ validationSnippets[i].hasContent
        /\ TrimLower[validationSnippets[i].content] = TrimLower[body.content]}

\* the step in which the POST handler of slot k answers
PostAnswers(k) == posts[k].pc = "json" /\ posts'[k].pc = "idle"

\* C26: a POST of a stored content (after trimming and lower-casing) leaves the
\* store as it is and answers 200 with that stored snippet and isDuplicate true;
\* any other POST that succeeds puts exactly one new snippet at the front, with
\* status draft and every validation counter 0, and answers 201 with it and
\* isDuplicate false
C26_PostDuplicateOrInsert ==
    [][\A k \in PostSlots :
          PostAnswers(k) =>
             IF StoredAs(posts[k].body) # {}
             THEN /\ validationSnippets' = validationSnippets
                  /\ snippetResponse'.status = 200
                  /\ snippetResponse'.isDuplicate
                  /\ \E i \in StoredAs(posts[k].body) :
                        snippetResponse'.snippet = validationSnippets[i]
             ELSE snippetResponse'.status # 500 =>
                  /\ Len(validationSnippets') = Len(validationSnippets) + 1
                  /\ Tail(validationSnippets') = validationSnippets
                  /\ Head(validationSnippets').content = posts[k].body.content
                  /\ Head(validationSnippets').status = "draft"
                  /\ \A group \in {"staff", "community", "elders"} :
                        /\ Head(validationSnippets').validations[group].positive = 0
                        /\ Head(validationSnippets').validations[group].negative = 0
                  /\ snippetResponse'.status = 201
                  /\ snippetResponse'.snippet = Head(validationSnippets')
                  /\ ~snippetResponse'.isDuplicate]_vars

\* two snippets were inserted, the later one in front, and a POST of the older
\* one's content has been answered with it as a duplicate
C26_Witness ==
    /\ Len(validationSnippets) = 2
    /\ validationSnippets[1].createdAt > validationSnippets[2].createdAt
    /\ snippetResponse.status = 200
    /\ snippetResponse.handler = "POST"
    /\ snippetResponse.isDuplicate
    /\ snippetResponse.snippet = validationSnippets[2]
    /\ \A k \in PostSlots : posts[k].pc = "idle"

----------------------------------------------------------------------------
(* The TTL cache: class SimpleCache and its instance apiCache, used by the   *)
(* documents and mailout routes                                              *)

\* values cached
CacheValues == {"v1", "v2"}

\* times to live, in minutes
Ttls == {0, 1}

\* Date.now() - entry.timestamp > entry.ttl
isExpired(entry, t) == t - entry.timestamp > entry.ttl

\* the entry set(key, data, ttlMinutes) stores
CacheEntry(data, ttlMinutes, t) ==
    [data |-> data, timestamp |-> t, ttl |-> ttlMinutes * 60 * 1000]

\* what get(key) returns at time t
GetResult(c, key, t) ==
    IF c[key] = NoEntry THEN "null"
    ELSE IF isExpired(c[key], t) THEN "null"
    ELSE c[key].data

\* the Map after get(key) or has(key) at time t
AfterLookup(c, key, t) ==
    IF c[key] # NoEntry /\ isExpired(c[key], t)
    THEN [c EXCEPT ![key] = NoEntry]
    ELSE c

\* the Map after clear(key): if (key) delete(key) else clear()
AfterClear(c, key) ==
    IF key # "" THEN [c EXCEPT ![key] = NoEntry]
    ELSE [k \in CacheKeys |-> NoEntry]

CacheInit ==
    /\ ChatIdle
    /\ OtherIdle

CacheSet(key) ==
    /\ \E data \in CacheValues, ttlMinutes \in Ttls :
          /\ cache' = [cache EXCEPT ![key] = CacheEntry(data, ttlMinutes, now)]
          /\ lastSet' = [lastSet EXCEPT ![key] = CacheEntry(data, ttlMinutes, now)]
    /\ cacheAnswer' = [op |-> "set", key |-> key]
    /\ UNCHANGED <<chatVars, snippetVars, now, taskVars, widgetVars>>

CacheGet(key) ==
    /\ cacheAnswer' = [op |-> "get", key |-> key, result |-> GetResult(cache, key, now)]
    /\ cache' = AfterLookup(cache, key, now)
    /\ UNCHANGED <<chatVars, snippetVars, now, lastSet, taskVars, widgetVars>>

CacheHas(key) ==
    /\ cacheAnswer' = [op |-> "has", key |-> key,
                       result |-> cache[key] # NoEntry /\ ~isExpired(cache[key], now)]
    /\ cache' = AfterLookup(cache, key, now)
    /\ UNCHANGED <<chatVars, snippetVars, now, lastSet, taskVars, widgetVars>>

\* clear(key) with a key given
CacheClear(key) ==
    /\ cache' = AfterClear(cache, key)
    /\ lastSet' = [lastSet EXCEPT ![key] = NoEntry]
    /\ cacheAnswer' = [op |-> "clear", key |-> key]
    /\ UNCHANGED <<chatVars, snippetVars, now, taskVars, widgetVars>>

\* clear() without a key
CacheClearAll ==
    /\ cache' = [k \in CacheKeys |-> NoEntry]
    /\ lastSet' = [k \in CacheKeys |-> NoEntry]
    /\ cacheAnswer' = [op |-> "clearAll"]
    /\ UNCHANGED <<chatVars, snippetVars, now, taskVars, widgetVars>>

CacheNext ==
    \/ \E key \in CacheKeys : CacheSet(key)
    \/ \E key \in CacheKeys : CacheGet(key)
    \/ \E key \in CacheKeys : CacheHas(key)
    \/ \E key \in CacheKeys : CacheClear(key)
    \/ CacheClearAll
    \/ Tick

CacheSpec == CacheInit /\ [][CacheNext]_vars

\* the key a step of the cache works on
WorksOn(key) ==
    /\ cacheAnswer'.op \in {"set", "get", "has", "clear"}
    /\ cacheAnswer'.key = key
    /\ <<cache, cacheAnswer, lastSet>>' # <<cache, cacheAnswer, lastSet>>

\* the latest set of the key is still alive: at most its ttl has gone by and
\* the key was not cleared since
Alive(key, t) ==
    /\ lastSet[key] # NoEntry
    /\ t - lastSet[key].timestamp <= lastSet[key].ttl

----------------------------------------------------------------------------
(* Two chat requests at once: POST of src/app/api/chat/route.ts run by two   *)
(* tasks that take turns at the awaits.  allResults, relevantChunks and the  *)
(* response are locals of each call.                                         *)

\* the table both requests read
SharedStore ==
    << Row("c1", "d1", HoodieTitle, 0, "t1"),
       Row("c2", "d1", HoodieTitle, 1, "t2"),
       Row("c3", "d2", "Mentoring", 0, "t3") >>

ChatRequest(message, documentId, themes) ==
    [message |-> message, model |-> "openai", history |-> <<>>,
     enable_intelligence |-> TRUE, document_id |-> documentId,
     selectedThemes |-> themes]

\* a request scoped to a document, an unscoped one, one with a theme
ConcurrentRequests ==
    {ChatRequest("aime", "d1", <<>>),
     ChatRequest("Hoodie Economics", NoDocument, <<>>),
     ChatRequest("aime", NoDocument, <<"Mentoring">>)}

\* answers of match_chunks with one similarity for all rows
TaskVectorStep(st) ==
    {e \in VectorStep(st) :
        \A k \in 1..Len(e.vecData) : e.vecData[k].similarity = DirectSimilarity}

\* the text the provider answers with
ConcurrentAnswer == "34% increase in completion rates."

\* allResults.push(...rows) on one array for all calls
PushResultsShared(ts, i, rows) ==
    [k \in DOMAIN ts |-> [ts[k] EXCEPT !.allResults = @ \o rows]]

\* allResults.push(...rows) on the array of call i
PushResults(ts, i, rows) ==
    [ts EXCEPT ![i].allResults = @ \o rows]

\* searchSimilarChunks of call i returns chunks
Returned(ts, i, e, chunks) ==
    [ts EXCEPT ![i].ext = e, ![i].relevantChunks = chunks, ![i].pc = "generate"]

\* the sort and the diversity loop over the array of call i
Merged(ts, i, e) ==
    Returned(ts, i, e, MergeResults(ts[i].allResults, Limit))

\* the successful response of POST for a request and its merged chunks
TaskResponse(r, chunks) ==
    [status |-> 200,
     content |-> ConcurrentAnswer,
     citations |-> Citations(chunks),
     extractable_facts |-> AnswerFacts[ConcurrentAnswer, r.message, "ok"],
     model_used |-> r.model,
     intelligence_enhancement |->
         IF r.enable_intelligence THEN enhanceWithIntelligence(r.message, "ok")
         ELSE NullEnhancement]

ConcurrentInit ==
    /\ store = SharedStore
    /\ ChatAtRest
    /\ OtherIdle

\* request.json()
TaskReceive(i) ==
    /\ tasks[i].pc = "idle"
    /\ \E r \in ConcurrentRequests :
          tasks' = [tasks EXCEPT ![i] = [IdleTask EXCEPT !.pc = "embedding", !.req = r]]
    /\ UNCHANGED <<chatVars, snippetVars, now, cacheVars, widgetVars>>

\* generateEmbedding
TaskEmbedding(i) ==
    /\ tasks[i].pc = "embedding"
    /\ \E o \in {"ok", "throw"} :
          tasks' = IF EmbeddingThrows(o)
                   THEN [tasks EXCEPT ![i].pc = "done",
                                      ![i].response = PostCatch(ThrownError("embedding"))]
                   ELSE [tasks EXCEPT ![i].pc = "search"]
    /\ UNCHANGED <<chatVars, snippetVars, now, cacheVars, widgetVars>>

\* searchSimilarChunks up to its first query: document, themes or vector
TaskSearch(i) ==
    /\ tasks[i].pc = "search"
    /\ LET r == tasks[i].req
           scoped == r.document_id # NoDocument
       IN \E e \in IF scoped THEN DocumentStep(store, r)
                   ELSE IF Len(r.selectedThemes) > 0 THEN ThemeStep(store, r)
                   ELSE TaskVectorStep(store) :
             tasks' =
                IF Thrown(e) \/ (scoped /\ e.doc = "error")
                THEN Returned(tasks, i, e, <<>>)
                ELSE IF scoped
                THEN Merged(PushResults(tasks, i, Take(e.docData, Limit)), i, e)
                ELSE [PushResults(tasks, i, ThemePart(e) \o VectorPart(e))
                         EXCEPT ![i].ext = e, ![i].pc = "hoodie"]
    /\ UNCHANGED <<chatVars, snippetVars, now, cacheVars, widgetVars>>

\* 2. Add specific document matches
TaskHoodie(i) ==
    /\ tasks[i].pc = "hoodie"
    /\ \E e \in HoodieStep(store, tasks[i].req, tasks[i].ext) :
          tasks' =
             IF Thrown(e) THEN Returned(tasks, i, e, <<>>)
             ELSE [PushResults(tasks, i, HoodiePart(e))
                      EXCEPT ![i].ext = e, ![i].pc = "fallback"]
    /\ UNCHANGED <<chatVars, snippetVars, now, cacheVars, widgetVars>>

\* 3. Fallback if allResults.length === 0, then the sort and the loop
TaskFallback(i) ==
    /\ tasks[i].pc = "fallback"
    /\ IF tasks[i].allResults = <<>>
       THEN \E o \in Outcomes :
               LET e == [tasks[i].ext EXCEPT !.fb = o,
                                             !.fbData = DataOf(o, FallbackQuery(store))]
               IN tasks' =
                     IF Thrown(e) THEN Returned(tasks, i, e, <<>>)
                     ELSE Merged(PushResults(tasks, i, FallbackPart(e)), i, e)
       ELSE tasks' = Merged(tasks, i, tasks[i].ext)
    /\ UNCHANGED <<chatVars, snippetVars, now, cacheVars, widgetVars>>

\* enhanceWithIntelligence, generateResponse and the response of POST
TaskGenerate(i) ==
    /\ tasks[i].pc = "generate"
    /\ \E l \in {"ok", "throw"} :
          tasks' = [tasks EXCEPT
                      ![i].pc = "done",
                      ![i].response =
                          IF GenerationFails(l, "ok")
                          THEN PostCatch(ThrownError("generation"))
                          ELSE TaskResponse(tasks[i].req, tasks[i].relevantChunks)]
    /\ UNCHANGED <<chatVars, snippetVars, now, cacheVars, widgetVars>>

\* the response is sent and the locals are gone
TaskRespond(i) ==
    /\ tasks[i].pc = "done"
    /\ tasks' = [tasks EXCEPT ![i] = IdleTask]
    /\ UNCHANGED <<chatVars, snippetVars, now, cacheVars, widgetVars>>

ConcurrentNext ==
    \E i \in TaskIds :
        \/ TaskReceive(i)
        \/ TaskEmbedding(i)
        \/ TaskSearch(i)
        \/ TaskHoodie(i)
        \/ TaskFallback(i)
        \/ TaskGenerate(i)
        \/ TaskRespond(i)

ConcurrentSpec == ConcurrentInit /\ [][ConcurrentNext]_vars

\* chunk ids of the rows the queries of a call answered with
AnsweredIds(e) ==
    ChunkIds(e.docData) \cup ChunkIds(e.themeData) \cup ChunkIds(e.vecData)
    \cup ChunkIds(e.hoodieData) \cup ChunkIds(e.fbData)

\* C21: however two chat requests take turns at their awaits, the merged result
\* of each is the one it gets alone from the same answers of the stores, and so
\* is its response; no chunk another request fetched for its document shows up
\* in it; and the process-wide cache is neither read nor written
C21_ConcurrentRequestsIsolated ==
    /\ \A i \in TaskIds :
          /\ tasks[i].pc \in {"generate", "done"} =>
                /\ tasks[i].relevantChunks
                   = SearchSimilarChunks(tasks[i].req, tasks[i].ext, Limit)
                /\ ChunkIds(tasks[i].relevantChunks) \subseteq AnsweredIds(tasks[i].ext)
          /\ (tasks[i].pc = "done" /\ tasks[i].response.status = 200) =>
                tasks[i].response
                = TaskResponse(tasks[i].req,
                               SearchSimilarChunks(tasks[i].req, tasks[i].ext, Limit))
    /\ cache = [k \in CacheKeys |-> NoEntry]
    /\ cacheAnswer = NoCacheAnswer

\* a document-scoped request has merged the chunks of its document while an
\* unscoped request, begun before it ended, has answered with other chunks
C21_Witness ==
    \E i, j \in TaskIds :
        /\ tasks[i].req.document_id = "d1"
        /\ tasks[i].pc = "generate"
        /\ Len(tasks[i].relevantChunks) = 2
        /\ tasks[j].req.document_id = NoDocument
        /\ tasks[j].pc = "done"
        /\ tasks[j].response.status = 200
        /\ Len(tasks[j].relevantChunks) = 1
        /\ tasks[j].relevantChunks[1].document_id = "d2"

----------------------------------------------------------------------------
(* The chat widget: src/app/components/forms/ChatWidget.tsx, handleSubmit    *)
(* and saveFactToValidation.  A handler reads the state of the render that   *)
(* made it; what it sets shows at the next render.                           *)

\* most submissions handleSubmit accepts
MaxSubmits == 2

\* most save requests in flight at once
MaxSaves == 2

\* texts typed into the input
Inputs == {"", " ", "aime"}

\* extractable_facts of an answer
ReplyFacts == {<<>>, <<"Fact A">>}

Apology ==
    "I apologize, but I encountered an error while processing your request. Please try again."

UserMessage(t, text) ==
    [id |-> t, role |-> "user", content |-> text, facts |-> <<>>]

AssistantMessage(t, text, facts) ==
    [id |-> t + 1, role |-> "assistant", content |-> text, facts |-> facts]

\* `${messageId}-${fact.content}`
FactKey(messageId, content) == <<messageId, content>>

\* the Save buttons the last render shows enabled: the fact is neither saved
\* (no button) nor saving (button disabled)
SaveButtons(w) ==
    {FactKey(w.messages[i].id, w.messages[i].facts[k]) :
        i \in {j \in 1..Len(w.messages) : Len(w.messages[j].facts) > 0},
        k \in {1}}
    \ (w.savedFacts \cup w.savingFacts)

\* if (savingFacts.has(factKey) || savedFacts.has(factKey)) return
SaveSkipped(w, key) == key \in w.savingFacts \/ key \in w.savedFacts

\* if (!input.trim() || isLoading) return
SubmitAccepted(w) == Trim(w.input) # "" /\ ~w.isLoading

\* the reply is appended and isLoading stays as it was
SettledStillLoading(q, message) ==
    [q EXCEPT !.messages = Append(@, message)]

\* the reply is appended and, in finally, setIsLoading(false)
Settled(q, message) ==
    [q EXCEPT !.messages = Append(@, message), !.isLoading = FALSE]

RemoveAt(seq, n) == SubSeq(seq, 1, n - 1) \o SubSeq(seq, n + 1, Len(seq))

WidgetInit ==
    /\ ChatIdle
    /\ OtherIdle

\* onChange of the input, which is disabled while isLoading
TypeInput ==
    /\ ~widget.isLoading
    /\ \E text \in Inputs :
          /\ text # queued.input
          /\ queued' = [queued EXCEPT !.input = text]
    /\ UNCHANGED <<widget, chats, saves, accepted>>
    /\ UNCHANGED <<chatVars, snippetVars, now, cacheVars, taskVars>>

\* handleSubmit up to await fetch('/api/chat')
Submit ==
    /\ SubmitAccepted(widget)
    /\ accepted < MaxSubmits
    /\ queued' = [queued EXCEPT
                     !.messages = Append(@, UserMessage(now, Trim(widget.input))),
                     !.input = "",
                     !.isLoading = TRUE]
    /\ chats' = chats + 1
    /\ accepted' = accepted + 1
    /\ UNCHANGED <<widget, saves>>
    /\ UNCHANGED <<chatVars, snippetVars, now, cacheVars, taskVars>>

\* the fetch of a submission settles: try, catch and finally of handleSubmit.
\* The render the set calls asked for is done before a fetch can settle.
ChatSettles ==
    /\ chats > 0
    /\ widget = queued
    /\ \E outcome \in {"ok", "notok", "reject"}, facts \in ReplyFacts :
          /\ outcome # "ok" => facts = <<>>
          /\ queued' = Settled(queued,
                               IF outcome = "ok"
                               THEN AssistantMessage(now, "answer", facts)
                               ELSE AssistantMessage(now, Apology, <<>>))
    /\ chats' = chats - 1
    /\ UNCHANGED <<widget, saves, accepted>>
    /\ UNCHANGED <<chatVars, snippetVars, now, cacheVars, taskVars>>

\* onClick of a Save button: saveFactToValidation up to await fetch
ClickSave ==
    /\ Len(saves) < MaxSaves
    /\ \E key \in SaveButtons(widget) :
          /\ ~SaveSkipped(widget, key)
          /\ queued' = [queued EXCEPT !.savingFacts = @ \cup {key}]
          /\ saves' = Append(saves, key)
    /\ UNCHANGED <<widget, chats, accepted>>
    /\ UNCHANGED <<chatVars, snippetVars, now, cacheVars, taskVars>>

\* the fetch of a save settles: try, catch and finally of saveFactToValidation
SaveSettles ==
    /\ widget = queued
    /\ \E n \in 1..Len(saves), outcome \in {"created", "duplicate", "error", "reject"} :
          /\ queued' = [queued EXCEPT
                           !.savedFacts = IF outcome \in {"created", "duplicate"}
                                          THEN @ \cup {saves[n]} ELSE @,
                           !.savingFacts = @ \ {saves[n]}]
          /\ saves' = RemoveAt(saves, n)
    /\ UNCHANGED <<widget, chats, accepted>>
    /\ UNCHANGED <<chatVars, snippetVars, now, cacheVars, taskVars>>

\* React renders the widget with the state set so far
Render ==
    /\ widget # queued
    /\ widget' = queued
    /\ UNCHANGED <<queued, chats, saves, accepted>>
    /\ UNCHANGED <<chatVars, snippetVars, now, cacheVars, taskVars>>

WidgetNext ==
    \/ TypeInput
    \/ Submit
    \/ ChatSettles
    \/ ClickSave
    \/ SaveSettles
    \/ Render
    \/ Tick

WidgetSpec == WidgetInit /\ [][WidgetNext]_vars

\* C28: for every fact of a message at most one save request is in flight at
\* any time, and no save request is issued for a fact marked saved, whatever
\* the clicks, clicks before the widget has rendered again included
C28_OneSavePerFact ==
    /\ [](\A i, j \in 1..Len(saves) : i # j => saves[i] # saves[j])
    /\ [][Len(saves') > Len(saves) =>
              saves'[Len(saves')] \notin widget.savedFacts]_vars

\* the form on its own, no fact being saved
SubmitNext ==
    \/ TypeInput
    \/ Submit
    \/ ChatSettles
    \/ Render
    \/ Tick

\* React renders what was set, and a fetch settles, resolved or rejected,
\* whatever is typed and rendered meanwhile
WidgetFairSpec ==
    /\ WidgetInit
    /\ [][SubmitNext]_vars
    /\ WF_vars(Render)
    /\ SF_vars(ChatSettles)

UserMessages(w) == {i \in 1..Len(w.messages) : w.messages[i].role = "user"}

\* the assistant messages but for the welcome
Replies(w) ==
    {i \in 2..Len(w.messages) : w.messages[i].role = "assistant"}

Last(seq) == seq[Len(seq)]

\* C29: every accepted submission appends exactly one user message and is in
\* the end followed by exactly one assistant message, the answer or the fixed
\* apology, after which isLoading is false; and while isLoading is true no
\* chat request is issued
C29_SubmissionAnsweredOnce ==
    /\ [](/\ Cardinality(UserMessages(queued)) = accepted
          /\ Cardinality(Replies(queued)) + chats = accepted)
    /\ [][accepted' > accepted =>
             /\ ~widget.isLoading
             /\ chats' = chats + 1
             /\ Len(queued'.messages) = Len(queued.messages) + 1
             /\ Last(queued'.messages).role = "user"]_vars
    /\ [][chats' < chats =>
             /\ Len(queued'.messages) = Len(queued.messages) + 1
             /\ Last(queued'.messages).role = "assistant"
             /\ Last(queued'.messages).content \in {"answer", Apology}
             /\ ~queued'.isLoading]_vars
    /\ \A n \in 1..MaxSubmits :
          (accepted >= n) ~>
              (Cardinality(Replies(widget)) >= n /\ ~widget.isLoading)

\* two submissions were accepted, one was answered and one met with the
\* apology, and the widget is no longer loading
C29_Witness ==
    /\ accepted = 2
    /\ chats = 0
    /\ ~widget.isLoading
    /\ \E i, j \in Replies(widget) :
          /\ widget.messages[i].content = "answer"
          /\ widget.messages[j].content = Apology

====
